---------------------------- MODULE Spec2Model ----------------------------
(***************************************************************************)
(* Card-secret retrieval protocol of the Rain cards integration:           *)
(*   - the Session Key Issuer, lib/session-id.ts (generateSessionId,       *)
(*     generateSessionIdForEnv);                                           *)
(*   - the Secret Unwrapper, lib/card-decrypt.ts (decryptSecret);          *)
(*   - the retrieval workflows that call the two around one request to the *)
(*     remote service: the MCP tool get_card_payment_details and the       *)
(*     scripts get-card-secrets and test-mcp-card-details;                 *)
(*   - the Convex tables that mirror the remote service (convex/cards.ts,  *)
(*     users.ts, balances.ts, contracts.ts) and the MCP tools that write   *)
(*     to both: update_card_status, update_card_limit, get_user_balance.   *)
(*                                                                         *)
(* Text is modelled as a sequence of UTF-16 code units (numbers), binary   *)
(* data as a sequence of bytes 0..255.  The conversions of the Node        *)
(* runtime (hex, base64, UTF-8, String.prototype.trim) are computed the    *)
(* way the runtime computes them.  The two ciphers of the crypto library   *)
(* are replaced by small ciphers over bytes that keep the interface, the   *)
(* argument checks and the guarantees the protocol relies on: see          *)
(* GcmTag and RsaOaepEncrypt.                                              *)
(***************************************************************************)
EXTENDS Integers, Sequences, FiniteSets, TLC

VARIABLES
    session,    \* outcome of the last session-token issuance, with its arguments
    payload,    \* the encrypted field payload in hand, with how it was made
    dec,        \* outcome of the last decryptSecret call, with its arguments
    world,      \* what lies outside the calls: console output and stores
    proc,       \* the process: the program it runs and its environment variables
    flow,       \* the retrieval workflows in progress, one per request
    wire,       \* the requests the remote service was sent, in order
    db,         \* the Convex tables: per table its documents, in order of creation
    mut,        \* the last Convex mutation that ran, with its arguments and outcome
    rain,       \* what the remote service holds: cards and balances
    tool        \* the calls of the MCP tools in progress

vars == <<session, payload, dec, world, proc, flow, wire, db, mut, rain, tool>>

\* The variables of the retrieval workflows.
flowVars == <<proc, flow, wire>>

\* The variables of the tables and of the tools that write to them.
dbVars == <<db, mut, rain, tool>>

---------------------------------------------------------------------------
(* Values of the runtime *)

\* A JavaScript `undefined` argument.  No text is equal to it: the code units
\* of a text are not negative.
Undefined == <<-1>>

\* JavaScript truthiness of a string-or-undefined value.
Truthy(s) == s # Undefined /\ s # <<>>

Pow2(k) == 2^k

\* b with bit k inverted.
FlipBit(b, k) == IF (b \div Pow2(k)) % 2 = 1 THEN b - Pow2(k) ELSE b + Pow2(k)

\* s with its element at position i replaced by v.
SetAt(s, i, v) == [j \in 1..Len(s) |-> IF j = i THEN v ELSE s[j]]

---------------------------------------------------------------------------
(* Hexadecimal *)

IsHexChar(c) == c \in (48..57) \cup (65..70) \cup (97..102)

\* /^[0-9A-Fa-f]+$/.test(s), s a string.
HexRegexTest(s) == Len(s) >= 1 /\ \A i \in 1..Len(s) : IsHexChar(s[i])

HexVal(c) == IF c \in 48..57 THEN c - 48
             ELSE IF c \in 65..70 THEN c - 55
             ELSE c - 87

\* Lower-case hex digit of a nibble.
HexDigit(n) == IF n < 10 THEN 48 + n ELSE 87 + n

\* Buffer.from(s, "hex"): whole pairs of digits, up to the first pair that is
\* not hexadecimal; a trailing single digit is dropped.
RECURSIVE HexDecodeFrom(_, _)
HexDecodeFrom(s, i) ==
    IF i + 1 > Len(s) THEN <<>>
    ELSE IF ~(IsHexChar(s[i]) /\ IsHexChar(s[i + 1])) THEN <<>>
    ELSE <<16 * HexVal(s[i]) + HexVal(s[i + 1])>> \o HexDecodeFrom(s, i + 2)

HexDecode(s) == HexDecodeFrom(s, 1)

\* buf.toString("hex")
RECURSIVE HexEncode(_)
HexEncode(b) ==
    IF b = <<>> THEN <<>>
    ELSE <<HexDigit(Head(b) \div 16), HexDigit(Head(b) % 16)>> \o HexEncode(Tail(b))

---------------------------------------------------------------------------
(* Base64 *)

B64Char(v) == IF v < 26 THEN 65 + v
              ELSE IF v < 52 THEN 71 + v
              ELSE IF v < 62 THEN v - 4
              ELSE IF v = 62 THEN 43
              ELSE 47

\* The sextet of a character, -1 for a character outside the alphabets
\* (the decoder takes the URL-safe '-' and '_' too).
Unbase64(c) == IF c \in 65..90 THEN c - 65
               ELSE IF c \in 97..122 THEN c - 71
               ELSE IF c \in 48..57 THEN c + 4
               ELSE IF c = 43 \/ c = 45 THEN 62
               ELSE IF c = 47 \/ c = 95 THEN 63
               ELSE -1

\* buf.toString("base64"): padded standard base64.
RECURSIVE Base64Encode(_)
Base64Encode(b) ==
    IF Len(b) = 0 THEN <<>>
    ELSE IF Len(b) = 1 THEN
        <<B64Char(b[1] \div 4), B64Char((b[1] % 4) * 16), 61, 61>>
    ELSE IF Len(b) = 2 THEN
        <<B64Char(b[1] \div 4),
          B64Char((b[1] % 4) * 16 + b[2] \div 16),
          B64Char((b[2] % 16) * 4), 61>>
    ELSE
        <<B64Char(b[1] \div 4),
          B64Char((b[1] % 4) * 16 + b[2] \div 16),
          B64Char((b[2] % 16) * 4 + b[3] \div 64),
          B64Char(b[3] % 64)>> \o Base64Encode(SubSeq(b, 4, Len(b)))

\* The sextets the decoder reads: characters outside the alphabet are skipped,
\* and reading stops at the first '='.
RECURSIVE Sextets(_, _)
Sextets(s, i) ==
    IF i > Len(s) THEN <<>>
    ELSE IF s[i] = 61 THEN <<>>
    ELSE IF Unbase64(s[i]) < 0 THEN Sextets(s, i + 1)
    ELSE <<Unbase64(s[i])>> \o Sextets(s, i + 1)

RECURSIVE SextetsToBytes(_)
SextetsToBytes(q) ==
    IF Len(q) < 2 THEN <<>>
    ELSE IF Len(q) = 2 THEN <<q[1] * 4 + q[2] \div 16>>
    ELSE IF Len(q) = 3 THEN
        <<q[1] * 4 + q[2] \div 16, (q[2] % 16) * 16 + q[3] \div 4>>
    ELSE
        <<q[1] * 4 + q[2] \div 16,
          (q[2] % 16) * 16 + q[3] \div 4,
          (q[3] % 4) * 64 + q[4]>> \o SextetsToBytes(SubSeq(q, 5, Len(q)))

\* Buffer.from(s, "base64"): never throws.
Base64Decode(s) == SextetsToBytes(Sextets(s, 1))

---------------------------------------------------------------------------
(* UTF-8 *)

\* Buffer.from(str, "utf-8") for text of the Basic Multilingual Plane.
RECURSIVE Utf8Encode(_)
Utf8Encode(s) ==
    IF s = <<>> THEN <<>>
    ELSE LET c == Head(s) IN
         (IF c < 128 THEN <<c>>
          ELSE IF c < 2048 THEN <<192 + c \div 64, 128 + (c % 64)>>
          ELSE <<224 + c \div 4096, 128 + ((c \div 64) % 64), 128 + (c % 64)>>)
         \o Utf8Encode(Tail(s))

IsCont(b, i) == i <= Len(b) /\ b[i] \in 128..191

\* The "utf8" output encoding of Decipher.update/final: a byte that starts no
\* well-formed sequence becomes U+FFFD; nothing is thrown.
RECURSIVE Utf8DecodeFrom(_, _)
Utf8DecodeFrom(b, i) ==
    IF i > Len(b) THEN <<>>
    ELSE IF b[i] < 128 THEN <<b[i]>> \o Utf8DecodeFrom(b, i + 1)
    ELSE IF b[i] \in 194..223 /\ IsCont(b, i + 1) THEN
        <<(b[i] - 192) * 64 + (b[i + 1] - 128)>> \o Utf8DecodeFrom(b, i + 2)
    ELSE IF b[i] \in 224..239 /\ IsCont(b, i + 1) /\ IsCont(b, i + 2)
            /\ LET c == (b[i] - 224) * 4096 + (b[i + 1] - 128) * 64 + (b[i + 2] - 128)
               IN  c >= 2048 /\ c \notin 55296..57343 THEN
        <<(b[i] - 224) * 4096 + (b[i + 1] - 128) * 64 + (b[i + 2] - 128)>>
            \o Utf8DecodeFrom(b, i + 3)
    ELSE IF b[i] \in 240..244 /\ IsCont(b, i + 1) /\ IsCont(b, i + 2) /\ IsCont(b, i + 3)
            /\ LET c == (b[i] - 240) * 262144 + (b[i + 1] - 128) * 4096
                        + (b[i + 2] - 128) * 64 + (b[i + 3] - 128)
               IN  c \in 65536..1114111 THEN
        LET c == (b[i] - 240) * 262144 + (b[i + 1] - 128) * 4096
                 + (b[i + 2] - 128) * 64 + (b[i + 3] - 128) - 65536
        IN  <<55296 + c \div 1024, 56320 + (c % 1024)>> \o Utf8DecodeFrom(b, i + 4)
    ELSE <<65533>> \o Utf8DecodeFrom(b, i + 1)

Utf8Decode(b) == Utf8DecodeFrom(b, 1)

---------------------------------------------------------------------------
(* String.prototype.trim *)

\* WhiteSpace and LineTerminator code units of ECMAScript.
IsJsWhitespace(c) ==
    c \in {9, 10, 11, 12, 13, 32, 160, 5760, 8232, 8233, 8239, 8287, 12288, 65279}
          \cup (8192..8202)

\* Variant: only the white space in front is removed (trimStart).
JsTrim_StartOnly(s) ==
    LET keep == {i \in 1..Len(s) : ~IsJsWhitespace(s[i])}
    IN  IF keep = {} THEN <<>>
        ELSE LET lo == CHOOSE i \in keep : \A j \in keep : i <= j
             IN  SubSeq(s, lo, Len(s))

JsTrim(s) ==
    LET keep == {i \in 1..Len(s) : ~IsJsWhitespace(s[i])}
    IN  IF keep = {} THEN <<>>
        ELSE LET lo == CHOOSE i \in keep : \A j \in keep : i <= j
                 hi == CHOOSE i \in keep : \A j \in keep : i >= j
             IN  SubSeq(s, lo, hi)

---------------------------------------------------------------------------
(* AES-128-GCM of the crypto library, as decryptSecret uses it.              *)
(*                                                                           *)
(* The block cipher is replaced by arithmetic on bytes.  What is kept:       *)
(*   - the key is 16 bytes and the IV is not empty, or initialisation throws;*)
(*   - the tag has one of the lengths GCM allows, or setAuthTag throws;      *)
(*   - decryption inverts encryption under the same key and IV;              *)
(*   - the tag is computed from the key, the IV and the ciphertext, and it   *)
(*     changes when one byte of the IV or of the ciphertext changes or when  *)
(*     the key is another one (the authenticity GCM is used for);            *)
(*   - final() throws unless the tag that was set equals the computed one.   *)

TagLength == 16

AesKeyLength == 16

\* Tag lengths setAuthTag accepts for GCM.
GcmTagLengths == {4, 8, 12, 13, 14, 15, 16}

\* Sum of s[j] * (2j - 1) for j >= i.  The weights are odd, so that changing one
\* byte changes the sum modulo 256.
RECURSIVE WeightedSum(_, _)
WeightedSum(s, i) ==
    IF i > Len(s) THEN 0 ELSE s[i] * (2 * i - 1) + WeightedSum(s, i + 1)

Digest(s) == (WeightedSum(s, 1) + Len(s)) % 256

KeyStream(key, iv, i) == (key[((i - 1) % Len(key)) + 1] + Digest(iv) + i) % 256

\* Counter-mode encryption of the plaintext bytes.
GcmEncryptBytes(key, iv, pt) ==
    [i \in 1..Len(pt) |-> (pt[i] + KeyStream(key, iv, i)) % 256]

\* Counter-mode decryption of the ciphertext bytes: Decipher.update.
GcmDecryptBytes(key, iv, ct) ==
    [i \in 1..Len(ct) |-> (ct[i] + 256 - KeyStream(key, iv, i)) % 256]

\* The 16-byte authentication tag of a ciphertext under a key and an IV.
GcmTag(key, iv, ct) ==
    [i \in 1..TagLength |-> (key[i] + Digest(iv) + Digest(ct) + 37 * i) % 256]

\* What the remote service sends for a plaintext: ciphertext followed by the tag.
GcmSeal(key, iv, pt) ==
    LET ct == GcmEncryptBytes(key, iv, pt) IN ct \o GcmTag(key, iv, ct)

\* Decipher.final(): the tag that was set is compared with the computed tag,
\* cut to the length of the tag that was set.
GcmTagVerifies(key, iv, ct, tag) ==
    tag = SubSeq(GcmTag(key, iv, ct), 1, Len(tag))

---------------------------------------------------------------------------
(* decryptSecret, lib/card-decrypt.ts *)

\* The outcome of a call: a returned value, or a thrown error with the step
\* that threw it; steps lists the steps the call performed, in order.
Returned(v, st) ==
    [ok |-> TRUE, value |-> v, error |-> "none", field |-> "none", steps |-> st]

Thrown(kind, fld, st) ==
    [ok |-> FALSE, value |-> <<>>, error |-> kind, field |-> fld, steps |-> st]

\* A slip in the guards: the iv is looked at before the data.
ValidateInputs_IvFirst(base64Secret, base64Iv, secretKey) ==
    IF ~Truthy(base64Iv) THEN "base64Iv"
    ELSE IF ~Truthy(base64Secret) THEN "base64Secret"
    ELSE IF ~Truthy(secretKey) \/ ~HexRegexTest(secretKey) THEN "secretKey"
    ELSE "none"

\* The three guards at the head of decryptSecret: the field of the first one
\* that throws, "none" when none does.
ValidateInputs(base64Secret, base64Iv, secretKey) ==
    IF ~Truthy(base64Secret) THEN "base64Secret"
    ELSE IF ~Truthy(base64Iv) THEN "base64Iv"
    ELSE IF ~Truthy(secretKey) \/ ~HexRegexTest(secretKey) THEN "secretKey"
    ELSE "none"

\* A slip in the split: the whole buffer is taken for the ciphertext.
CiphertextOf_Whole(secret) == secret

\* secret.subarray(0, -tagLength)
CiphertextOf(secret) ==
    IF Len(secret) <= TagLength THEN <<>>
    ELSE SubSeq(secret, 1, Len(secret) - TagLength)

\* secret.subarray(-tagLength)
AuthTagOf(secret) ==
    IF Len(secret) <= TagLength THEN secret
    ELSE SubSeq(secret, Len(secret) - TagLength + 1, Len(secret))

\* A slip in the cipher calls: the text of update() is returned and final(),
\* which verifies the tag, is not called.
Decipher_NoFinal(key, iv, ciphertext, authTag, st) ==
    IF Len(iv) = 0 THEN
        Thrown("InvalidIv", "none", st \o <<"createDecipheriv">>)
    ELSE IF Len(key) # AesKeyLength THEN
        Thrown("InvalidKeyLength", "none", st \o <<"createDecipheriv">>)
    ELSE IF Len(authTag) \notin GcmTagLengths THEN
        Thrown("InvalidTagLength", "none",
               st \o <<"createDecipheriv", "setAutoPadding", "setAuthTag">>)
    ELSE
        Returned(JsTrim(Utf8Decode(GcmDecryptBytes(key, iv, ciphertext))),
                 st \o <<"createDecipheriv", "setAutoPadding", "setAuthTag",
                         "update", "trim">>)

\* createDecipheriv .. final: the cipher calls of decryptSecret, after the
\* steps st.
Decipher(key, iv, ciphertext, authTag, st) ==
    IF Len(iv) = 0 THEN
        Thrown("InvalidIv", "none", st \o <<"createDecipheriv">>)
    ELSE IF Len(key) # AesKeyLength THEN
        Thrown("InvalidKeyLength", "none", st \o <<"createDecipheriv">>)
    ELSE IF Len(authTag) \notin GcmTagLengths THEN
        Thrown("InvalidTagLength", "none",
               st \o <<"createDecipheriv", "setAutoPadding", "setAuthTag">>)
    ELSE IF ~GcmTagVerifies(key, iv, ciphertext, authTag) THEN
        Thrown("AuthenticationFailure", "none",
               st \o <<"createDecipheriv", "setAutoPadding", "setAuthTag",
                       "update", "final">>)
    ELSE
        Returned(JsTrim(Utf8Decode(GcmDecryptBytes(key, iv, ciphertext))),
                 st \o <<"createDecipheriv", "setAutoPadding", "setAuthTag",
                         "update", "final", "trim">>)

\* A slip in the order of the steps: the arguments are decoded before they
\* are looked at.
decryptSecret_DecodeFirst(base64Secret, base64Iv, secretKey) ==
    LET bad == ValidateInputs(base64Secret, base64Iv, secretKey) IN
    IF bad # "none" THEN Thrown("InvalidInput", bad, <<"decode", "validate">>)
    ELSE
        LET secret == Base64Decode(base64Secret)
            iv == Base64Decode(base64Iv)
            secretKeyBuffer == HexDecode(secretKey)
        IN  Decipher(secretKeyBuffer, iv, CiphertextOf(secret), AuthTagOf(secret),
                     <<"decode", "validate">>)

decryptSecret(base64Secret, base64Iv, secretKey) ==
    LET bad == ValidateInputs(base64Secret, base64Iv, secretKey) IN
    IF bad # "none" THEN Thrown("InvalidInput", bad, <<"validate">>)
    ELSE
        LET secret == Base64Decode(base64Secret)
            iv == Base64Decode(base64Iv)
            secretKeyBuffer == HexDecode(secretKey)
        IN  Decipher(secretKeyBuffer, iv, CiphertextOf(secret), AuthTagOf(secret),
                     <<"validate", "decode">>)

\* The values a call holds in its local constants: the three decoded buffers,
\* the two parts of the split and the bytes update() decrypts; reached tells
\* how far the call got ("none": rejected by the guards, "decoded": the cipher
\* did not take the key, the IV or the tag, "decrypted": update() ran).
NoTrace ==
    [reached |-> "none", secret |-> <<>>, iv |-> <<>>, secretKeyBuffer |-> <<>>,
     ciphertext |-> <<>>, authTag |-> <<>>, plain |-> <<>>]

decryptTrace(base64Secret, base64Iv, secretKey) ==
    IF ValidateInputs(base64Secret, base64Iv, secretKey) # "none" THEN NoTrace
    ELSE
        LET secret == Base64Decode(base64Secret)
            iv == Base64Decode(base64Iv)
            secretKeyBuffer == HexDecode(secretKey)
            ciphertext == CiphertextOf(secret)
            authTag == AuthTagOf(secret)
            fits == /\ Len(iv) > 0
                    /\ Len(secretKeyBuffer) = AesKeyLength
                    /\ Len(authTag) \in GcmTagLengths
        IN  [reached |-> IF fits THEN "decrypted" ELSE "decoded",
             secret |-> secret, iv |-> iv, secretKeyBuffer |-> secretKeyBuffer,
             ciphertext |-> ciphertext, authTag |-> authTag,
             plain |-> IF fits THEN GcmDecryptBytes(secretKeyBuffer, iv, ciphertext)
                       ELSE <<>>]

\* What lies outside a call: the lines written to the console, and the stores
\* that outlive a call (database tables, caches, module-level variables).
NoWorld == [console |-> <<>>, store |-> {}]

\* A slip: the decrypted text is logged before it is returned.
decryptSecretEffects_Logged(w, base64Secret, base64Iv, secretKey) ==
    LET out == decryptSecret(base64Secret, base64Iv, secretKey) IN
    IF out.ok THEN [w EXCEPT !.console = Append(@, out.value)] ELSE w

\* What a call of decryptSecret makes of the world: the function assigns its
\* local constants only, logs nothing and stores nothing.
decryptSecretEffects(w, base64Secret, base64Iv, secretKey) == w

---------------------------------------------------------------------------
(* RSA-OAEP of the crypto library, as generateSessionId uses it.             *)
(*                                                                           *)
(* The public-key cipher is replaced by arithmetic on bytes.  What is kept:  *)
(*   - a PEM text that is no public key makes publicEncrypt throw;           *)
(*   - a message longer than the key allows makes publicEncrypt throw;       *)
(*   - encryption is randomised (the OAEP seed);                             *)
(*   - decryption under the private key of the same pair recovers the        *)
(*     message, and decryption under another key fails.                      *)

DEV_PUBLIC_KEY == "DEV_PUBLIC_KEY"

PROD_PUBLIC_KEY == "PROD_PUBLIC_KEY"

\* The private keys, held by the remote service only.
DEV_PRIVATE_KEY == "DEV_PRIVATE_KEY"

PROD_PRIVATE_KEY == "PROD_PRIVATE_KEY"

IsPublicKey(pem) == pem \in {DEV_PUBLIC_KEY, PROD_PUBLIC_KEY}

PublicOf(priv) == IF priv = DEV_PRIVATE_KEY THEN DEV_PUBLIC_KEY ELSE PROD_PUBLIC_KEY

\* The key material, as one number of the byte arithmetic.
KeyNumber(pem) == IF pem = DEV_PUBLIC_KEY THEN 17 ELSE 91

\* Longest message of a 1024-bit key under OAEP with SHA-1: 128 - 2 * 20 - 2.
RsaMaxMessage == 86

RsaOaepEncrypt(pem, msg, seed) ==
    <<seed, (KeyNumber(pem) + seed) % 256>>
        \o [i \in 1..Len(msg) |-> (msg[i] + KeyNumber(pem) + seed + i) % 256]

\* Decryption by the remote service: [ok, msg].
RsaOaepDecrypt(priv, c) ==
    LET k == KeyNumber(PublicOf(priv)) IN
    IF Len(c) < 2 \/ c[2] # (k + c[1]) % 256 THEN [ok |-> FALSE, msg |-> <<>>]
    ELSE [ok |-> TRUE,
          msg |-> [i \in 1..(Len(c) - 2) |-> (c[i + 2] + 768 - k - c[1] - i) % 256]]

---------------------------------------------------------------------------
(* generateSessionId and generateSessionIdForEnv, lib/session-id.ts *)

\* crypto.randomUUID() on 16 bytes of the random source: a version-4 UUID, its
\* version and variant bits set, written as 8-4-4-4-12 lower-case hex digits.
UuidBytes(rnd) ==
    [i \in 1..16 |-> IF i = 7 THEN 64 + (rnd[i] % 16)
                     ELSE IF i = 9 THEN 128 + (rnd[i] % 64)
                     ELSE rnd[i]]

randomUUID(rnd) ==
    LET h == HexEncode(UuidBytes(rnd)) IN
    SubSeq(h, 1, 8) \o <<45>> \o SubSeq(h, 9, 12) \o <<45>> \o SubSeq(h, 13, 16)
        \o <<45>> \o SubSeq(h, 17, 20) \o <<45>> \o SubSeq(h, 21, 32)

\* A slip in the rendering: the dashes of the UUID are kept.
RemoveDashes_Kept(s) == s

\* .replace(/-/g, "")
RemoveDashes(s) == SelectSeq(s, LAMBDA c : c # 45)

\* The outcome of an issuance: the returned pair, or a thrown error.
Issued(key, token, pem, st) ==
    [ok |-> TRUE, secretKey |-> key, sessionId |-> token, error |-> "none",
     publicKey |-> pem, steps |-> st]

IssueThrown(kind, pem, st) ==
    [ok |-> FALSE, secretKey |-> <<>>, sessionId |-> <<>>, error |-> kind,
     publicKey |-> pem, steps |-> st]

\* A slip in the selection: the key that was passed is ignored.
SelectPublicKey_Default(pem) == DEV_PUBLIC_KEY

\* const publicKey = pem || DEV_PUBLIC_KEY
SelectPublicKey(pem) == IF pem = "" THEN DEV_PUBLIC_KEY ELSE pem

\* The guard on a supplied secret: TRUE when it throws.
SecretRejected(secret) == Truthy(secret) /\ ~HexRegexTest(secret)

\* A slip in the selection: a supplied secret is rewritten in lower case.
SelectSecretKey_Normalised(secret, rnd) ==
    IF secret # Undefined THEN HexEncode(HexDecode(secret))
    ELSE RemoveDashes(randomUUID(rnd))

\* const secretKey = secret ?? crypto.randomUUID().replace(/-/g, "")
SelectSecretKey(secret, rnd) ==
    IF secret # Undefined THEN secret ELSE RemoveDashes(randomUUID(rnd))

\* A slip in the encoding chain: the raw bytes of the secret are encrypted.
SecretKeyBase64Buffer_Raw(secretKey) == HexDecode(secretKey)

\* Buffer.from(Buffer.from(secretKey, "hex").toString("base64"), "utf-8")
SecretKeyBase64Buffer(secretKey) == Utf8Encode(Base64Encode(HexDecode(secretKey)))

\* crypto.publicEncrypt({key, padding: OAEP}, buffer) and .toString("base64")
EncryptSecret(publicKey, secretKey, seed) ==
    Base64Encode(RsaOaepEncrypt(publicKey, SecretKeyBase64Buffer(secretKey), seed))

\* pem "" stands for an omitted pem; rnd are the bytes the random source gives
\* when it is read, seed the randomness of the OAEP padding.
generateSessionId(pem, secret, rnd, seed) ==
    LET publicKey == SelectPublicKey(pem)
        generated == secret = Undefined
        st == IF generated THEN <<"validate", "randomUUID", "encode">>
                            ELSE <<"validate", "encode">>
    IN  IF SecretRejected(secret) THEN
            IssueThrown("InvalidInput", publicKey, <<"validate">>)
        ELSE IF ~IsPublicKey(publicKey) THEN
            IssueThrown("KeyConfigurationError", publicKey, st \o <<"publicEncrypt">>)
        ELSE IF Len(SecretKeyBase64Buffer(SelectSecretKey(secret, rnd))) > RsaMaxMessage THEN
            IssueThrown("DataTooLarge", publicKey, st \o <<"publicEncrypt">>)
        ELSE
            Issued(SelectSecretKey(secret, rnd),
                   EncryptSecret(publicKey, SelectSecretKey(secret, rnd), seed),
                   publicKey, st \o <<"publicEncrypt">>)

\* A slip in the selection: the two keys are swapped.
EnvPublicKey_Swapped(useProduction) ==
    IF useProduction = "true" THEN DEV_PUBLIC_KEY ELSE PROD_PUBLIC_KEY

\* const publicKey = useProduction ? PROD_PUBLIC_KEY : DEV_PUBLIC_KEY;
\* useProduction is "true", "false" or "undefined" (omitted: the default, false).
EnvPublicKey(useProduction) ==
    IF useProduction = "true" THEN PROD_PUBLIC_KEY ELSE DEV_PUBLIC_KEY

generateSessionIdForEnv(useProduction, secret, rnd, seed) ==
    generateSessionId(EnvPublicKey(useProduction), secret, rnd, seed)

---------------------------------------------------------------------------
(* Inputs *)

\* Largest OAEP seed the padding draws.
MaxOaepSeed == 1

\* Longest plaintext built from PlainChars.
MaxPlainLen == 3

OaepSeeds == 0..MaxOaepSeed

\* "000102030405060708090a0b0c0d0e0f"
LowerKey == HexEncode([i \in 1..16 |-> i - 1])

\* s with its lower-case letters a..f in upper case.
UpperHex(s) == [i \in 1..Len(s) |-> IF s[i] \in 97..102 THEN s[i] - 32 ELSE s[i]]

\* "000102030405060708090A0B0C0D0E0F": the same 16 bytes as LowerKey.
UpperKey == UpperHex(LowerKey)

\* "000102030405060708090a0b0c0d0e0e": LowerKey with one bit of its last byte changed.
OtherKey == HexEncode([i \in 1..16 |-> IF i = 16 THEN 14 ELSE i - 1])

\* Texts that are no hexadecimal string: "xyz", "12-34", " 0a", and LowerKey
\* with a 'g' for its last digit.
NonHexSecrets ==
    {<<120, 121, 122>>, <<49, 50, 45, 51, 52>>, <<32, 48, 97>>,
     SetAt(LowerKey, 32, 103)}

\* Hexadecimal texts that are not 32 digits long: "abc", "abcd", 33 digits and
\* 34 digits.
OddSizeSecrets ==
    {<<97, 98, 99>>, <<97, 98, 99, 100>>, LowerKey \o <<49>>, LowerKey \o <<49, 48>>}

\* The secret argument of an issuance.
SecretArgs ==
    {Undefined, <<>>, LowerKey, UpperKey} \cup NonHexSecrets \cup OddSizeSecrets

\* What the random source gives in 16 bytes: all zero, all ones, and the
\* bytes 0x11, 0x22, .. .
RandomSamples ==
    {[i \in 1..16 |-> 0], [i \in 1..16 |-> 255], [i \in 1..16 |-> (17 * i) % 256]}

\* The pem argument of a direct generateSessionId call ("": omitted).
PemArgs == {"", DEV_PUBLIC_KEY, PROD_PUBLIC_KEY, "-----BEGIN GARBAGE-----"}

UseProductionArgs == {"true", "false", "undefined"}

---------------------------------------------------------------------------
(* The issuer: calls of generateSessionIdForEnv and generateSessionId *)

NoSession ==
    [called |-> FALSE, fn |-> "none", useProduction |-> "undefined", pem |-> "",
     secret |-> Undefined, rnd |-> <<>>, seed |-> 0,
     out |-> IssueThrown("none", "", <<>>)]

NoPayload ==
    [have |-> FALSE, data |-> <<>>, iv |-> <<>>, key |-> <<>>,
     sealKey |-> <<>>, pt |-> <<>>, tamper |-> "none"]

NoDec ==
    [called |-> FALSE, faulty |-> FALSE, data |-> <<>>, iv |-> <<>>,
     secret |-> <<>>, out |-> Thrown("none", "none", <<>>), mid |-> NoTrace]

\* The retrievals followed: two, that may overlap.
Requests == {"r1", "r2"}

\* No environment variable is set.
NoEnv ==
    [RAIN_API_BASE_URL |-> Undefined, USE_PRODUCTION |-> Undefined,
     SESSION_ID |-> Undefined, SECRET_KEY |-> Undefined]

\* A process that runs none of the retrieval programs.
NoProc == [program |-> "none", env |-> NoEnv]

\* A retrieval that has not started.
\* The tables of convex/schema.ts that the mutations write, all empty.
TableNames == {"cards", "users", "userBalances", "userContracts"}

NoDb == [t \in TableNames |-> <<>>]

NoMut == [seq |-> 0, fn |-> "none", table |-> "none", args |-> <<>>, error |-> "none"]

NoRain == [cards |-> <<>>, balances |-> <<>>]

ToolCalls == {"t1", "t2"}

NoTool ==
    [pc |-> "idle", name |-> "none", args |-> <<>>, before |-> <<>>,
     fetched |-> <<>>, synced |-> FALSE, result |-> <<>>]

NoFlow ==
    [pc |-> "idle", rnd |-> <<>>, seed |-> 0,
     sessionData |-> IssueThrown("none", "", <<>>),
     sessionId |-> Undefined, secretKey |-> Undefined, url |-> <<>>,
     secrets |-> [ok |-> FALSE, encryptedPan |-> [iv |-> <<>>, data |-> <<>>],
                  encryptedCvc |-> [iv |-> <<>>, data |-> <<>>]],
     pan |-> Thrown("none", "none", <<>>), cvc |-> Thrown("none", "none", <<>>),
     result |-> "none", hist |-> <<>>, calls |-> <<>>]

Init ==
    /\ session = NoSession
    /\ payload = NoPayload
    /\ dec = NoDec
    /\ world = NoWorld
    /\ proc = NoProc
    /\ flow = [r \in Requests |-> NoFlow]
    /\ wire = <<>>
    /\ db = NoDb
    /\ mut = NoMut
    /\ rain = NoRain
    /\ tool = [t \in ToolCalls |-> NoTool]

\* The random bytes and the seed a call consumes: the random source is read
\* only when no secret is supplied, the seed only by publicEncrypt.
RandomDraws(secret) == IF secret = Undefined THEN RandomSamples ELSE {<<>>}

SeedRead(out, seed) == IF "publicEncrypt" \in {out.steps[i] : i \in 1..Len(out.steps)}
                       THEN seed ELSE 0

IssueForEnv ==
    \E up \in UseProductionArgs, secret \in SecretArgs, seed \in OaepSeeds :
      \E rnd \in RandomDraws(secret) :
        LET out == generateSessionIdForEnv(up, secret, rnd, seed) IN
        /\ seed = SeedRead(out, seed)
        /\ session' = [called |-> TRUE, fn |-> "generateSessionIdForEnv",
                       useProduction |-> up, pem |-> EnvPublicKey(up),
                       secret |-> secret, rnd |-> rnd,
                       seed |-> seed, out |-> out]
        /\ UNCHANGED <<payload, dec, world, flowVars, dbVars>>

IssueDirect ==
    \E pem \in PemArgs, secret \in SecretArgs, seed \in OaepSeeds :
      \E rnd \in RandomDraws(secret) :
        LET out == generateSessionId(pem, secret, rnd, seed) IN
        /\ seed = SeedRead(out, seed)
        /\ session' = [called |-> TRUE, fn |-> "generateSessionId",
                       useProduction |-> "undefined", pem |-> pem,
                       secret |-> secret, rnd |-> rnd,
                       seed |-> seed, out |-> out]
        /\ UNCHANGED <<payload, dec, world, flowVars, dbVars>>

Next == IssueForEnv \/ IssueDirect

Spec == Init /\ [][Next]_vars

---------------------------------------------------------------------------
(* The unwrapper: payloads of the remote service and calls of decryptSecret *)

\* '4', ' ' and U+00E9 (two bytes in UTF-8).
PlainChars == {52, 32, 233}

RECURSIVE TextsUpTo(_)
TextsUpTo(n) ==
    IF n = 0 THEN {<<>>}
    ELSE TextsUpTo(n - 1)
         \cup {Append(t, c) : t \in {u \in TextsUpTo(n - 1) : Len(u) = n - 1},
                              c \in PlainChars}

\* "4242424242424242"
Pan == [i \in 1..16 |-> IF i % 2 = 1 THEN 52 ELSE 50]

\* " 4 2" followed by a tab: white space at both ends and inside.
PaddedText == <<32, 52, 32, 50, 9>>

Plaintexts == TextsUpTo(MaxPlainLen) \cup {Pan, PaddedText}

KeyTexts == {LowerKey, UpperKey, OtherKey}

\* Twelve zero bytes (base64 "AAAAAAAAAAAAAAAA") and twelve other bytes.
IvSamples == {[i \in 1..12 |-> 0], [i \in 1..12 |-> 16 * i + 3]}

\* The bits of a byte that a tampering inverts: the lowest and the highest.
TamperBits == {0, 7}

\* The remote service encrypts a field under the key of the session and an IV.
\* One payload is followed from its reception on.
ReceivePayload ==
    /\ ~payload.have
    /\ \E pt \in Plaintexts, key \in KeyTexts, iv \in IvSamples :
        /\ payload' = [have |-> TRUE,
                       data |-> Base64Encode(GcmSeal(HexDecode(key), iv, Utf8Encode(pt))),
                       iv |-> Base64Encode(iv),
                       key |-> key, sealKey |-> key, pt |-> pt, tamper |-> "none"]
        /\ dec' = NoDec
        /\ UNCHANGED <<session, world, flowVars, dbVars>>

\* One bit of the decoded data (ciphertext or tag) is inverted, before the call.
TamperData ==
    /\ payload.have /\ payload.tamper = "none" /\ ~dec.called
    /\ LET b == Base64Decode(payload.data) IN
       \E j \in 1..Len(b), k \in TamperBits :
           payload' = [payload EXCEPT !.data = Base64Encode(SetAt(b, j, FlipBit(b[j], k))),
                                      !.tamper = "data"]
    /\ dec' = NoDec
    /\ UNCHANGED <<session, world, flowVars, dbVars>>

\* One bit of the decoded iv is inverted.
TamperIv ==
    /\ payload.have /\ payload.tamper = "none" /\ ~dec.called
    /\ LET b == Base64Decode(payload.iv) IN
       \E j \in 1..Len(b), k \in TamperBits :
           payload' = [payload EXCEPT !.iv = Base64Encode(SetAt(b, j, FlipBit(b[j], k))),
                                      !.tamper = "iv"]
    /\ dec' = NoDec
    /\ UNCHANGED <<session, world, flowVars, dbVars>>

\* The key text in hand is replaced by another one: another 16-byte key, or
\* another spelling of the same key.
SubstituteKey ==
    /\ payload.have /\ payload.tamper = "none" /\ ~dec.called
    /\ \E k \in KeyTexts \ {payload.key} :
           payload' = [payload EXCEPT !.key = k,
                                      !.tamper = IF HexDecode(k) = HexDecode(payload.sealKey)
                                                 THEN "spelling" ELSE "key"]
    /\ dec' = NoDec
    /\ UNCHANGED <<session, world, flowVars, dbVars>>

\* The lengths a tag is cut to.
ShortLengths == {3, 4, 12, 15}

\* The payload of an empty plaintext (its data is the tag alone) arrives with
\* its tag cut to fewer than 16 bytes.
ShortenData ==
    /\ payload.have /\ payload.tamper = "none" /\ ~dec.called
    /\ LET b == Base64Decode(payload.data) IN
       /\ Len(b) = TagLength
       /\ \E n \in ShortLengths :
              payload' = [payload EXCEPT !.data = Base64Encode(SubSeq(b, 1, n)),
                                         !.tamper = "short"]
    /\ dec' = NoDec
    /\ UNCHANGED <<session, world, flowVars, dbVars>>

\* Characters that are none of base64: '*' and a line feed.
StrayChars == {42, 10}

\* The data or the iv text arrives as no well-formed base64: with a stray
\* character in front, or without its last character.
MangleBase64 ==
    /\ payload.have /\ payload.tamper = "none" /\ ~dec.called
    /\ \/ \E c \in StrayChars :
             payload' = [payload EXCEPT !.data = <<c>> \o @, !.tamper = "mangled"]
       \/ \E c \in StrayChars :
             payload' = [payload EXCEPT !.iv = <<c>> \o @, !.tamper = "mangled"]
       \/ payload' = [payload EXCEPT !.data = SubSeq(@, 1, Len(@) - 1),
                                     !.tamper = "mangled"]
       \/ payload' = [payload EXCEPT !.iv = SubSeq(@, 1, Len(@) - 1),
                                     !.tamper = "mangled"]
    /\ dec' = NoDec
    /\ UNCHANGED <<session, world, flowVars, dbVars>>

\* Plaintext bytes that are no well-formed UTF-8: 0xFF, '4' followed by a lead
\* byte without its continuation, and an overlong form.
RawPlainBytes == {<<255>>, <<52, 195>>, <<192, 175>>}

\* The remote service seals bytes that are no UTF-8 text.
ReceiveRawPayload ==
    /\ ~payload.have
    /\ \E raw \in RawPlainBytes, key \in KeyTexts, iv \in IvSamples :
        /\ payload' = [have |-> TRUE,
                       data |-> Base64Encode(GcmSeal(HexDecode(key), iv, raw)),
                       iv |-> Base64Encode(iv),
                       key |-> key, sealKey |-> key, pt |-> <<>>, tamper |-> "raw"]
        /\ dec' = NoDec
        /\ UNCHANGED <<session, world, flowVars, dbVars>>

\* decryptSecret on the payload in hand.
Decrypt ==
    /\ payload.have /\ ~dec.called
    /\ dec' = [called |-> TRUE, faulty |-> FALSE, data |-> payload.data,
               iv |-> payload.iv, secret |-> payload.key,
               out |-> decryptSecret(payload.data, payload.iv, payload.key),
               mid |-> decryptTrace(payload.data, payload.iv, payload.key)]
    /\ world' = decryptSecretEffects(world, payload.data, payload.iv, payload.key)
    /\ UNCHANGED <<session, payload, flowVars, dbVars>>

\* decryptSecret with a missing, empty or malformed argument, or a key text of
\* another size, in the place of some of the three arguments.
DecryptFaulty ==
    /\ payload.have /\ payload.tamper = "none" /\ ~dec.called
    /\ \E d \in {payload.data, <<>>, Undefined},
          i \in {payload.iv, <<>>, Undefined},
          k \in {payload.key, <<>>, Undefined} \cup NonHexSecrets \cup OddSizeSecrets :
        /\ <<d, i, k>> # <<payload.data, payload.iv, payload.key>>
        /\ dec' = [called |-> TRUE, faulty |-> TRUE, data |-> d, iv |-> i,
                   secret |-> k, out |-> decryptSecret(d, i, k),
                   mid |-> decryptTrace(d, i, k)]
        /\ world' = decryptSecretEffects(world, d, i, k)
    /\ UNCHANGED <<session, payload, flowVars, dbVars>>

UnwrapNext ==
    \/ ReceivePayload \/ ReceiveRawPayload
    \/ TamperData \/ TamperIv \/ SubstituteKey \/ ShortenData \/ MangleBase64
    \/ Decrypt \/ DecryptFaulty

UnwrapSpec == Init /\ [][UnwrapNext]_vars

---------------------------------------------------------------------------
(* The retrieval workflows: the MCP tool get_card_payment_details, and the   *)
(* scripts get-card-secrets and test-mcp-card-details.  Each issues a        *)
(* session token, sends it to the remote service with the request for the    *)
(* secrets of a card, awaits the response and decrypts its two fields.  A    *)
(* workflow is one action up to its await and one action after it; the       *)
(* remote service answers in between.  The MCP server runs the handlers of   *)
(* several requests in one process, interleaved at the await; the scripts    *)
(* run once per process, and two runs may overlap.                           *)

\* "https://api-dev.raincards.xyz/v1"
DevBaseUrl ==
    <<104, 116, 116, 112, 115, 58, 47, 47, 97, 112, 105, 45, 100, 101, 118,
      46, 114, 97, 105, 110, 99, 97, 114, 100, 115, 46, 120, 121, 122, 47,
      118, 49>>

\* "https://api.raincards.xyz/v1"
ProdBaseUrl ==
    <<104, 116, 116, 112, 115, 58, 47, 47, 97, 112, 105, 46, 114, 97, 105,
      110, 99, 97, 114, 100, 115, 46, 120, 121, 122, 47, 118, 49>>

\* "api.raincards.xyz"
ProdHost ==
    <<97, 112, 105, 46, 114, 97, 105, 110, 99, 97, 114, 100, 115, 46, 120,
      121, 122>>

\* "true"
TrueText == <<116, 114, 117, 101>>

\* String.prototype.includes
Includes(s, pat) ==
    \E i \in 1..(Len(s) - Len(pat) + 1) : SubSeq(s, i, i + Len(pat) - 1) = pat

\* process.env.RAIN_API_BASE_URL?.includes('api.raincards.xyz') ?? false
ToolUseProduction(e) ==
    IF e.RAIN_API_BASE_URL = Undefined THEN "false"
    ELSE IF Includes(e.RAIN_API_BASE_URL, ProdHost) THEN "true"
    ELSE "false"

\* process.env.USE_PRODUCTION === 'true'
ScriptUseProduction(e) == IF e.USE_PRODUCTION = TrueText THEN "true" ELSE "false"

\* process.env.RAIN_API_BASE_URL || 'https://api-dev.raincards.xyz/v1'
ApiBaseUrl(e) == IF Truthy(e.RAIN_API_BASE_URL) THEN e.RAIN_API_BASE_URL ELSE DevBaseUrl

\* The deployment of the remote service behind a base URL, and the private
\* key it opens session tokens with.
EndpointEnv(url) == IF url = ProdBaseUrl THEN "production" ELSE "sandbox"

EndpointPrivateKey(url) ==
    IF EndpointEnv(url) = "production" THEN PROD_PRIVATE_KEY ELSE DEV_PRIVATE_KEY

Programs == {"get_card_payment_details", "get-card-secrets", "test-mcp-card-details"}

\* The useProduction argument a program passes to generateSessionIdForEnv.
UseProductionOf(program, e) ==
    IF program = "get_card_payment_details" THEN ToolUseProduction(e)
    ELSE ScriptUseProduction(e)

\* A session issued earlier, outside the process, whose token and secret key
\* the operator may hand to get-card-secrets in SESSION_ID and SECRET_KEY.
EarlierSession ==
    generateSessionIdForEnv("false", Undefined, [i \in 1..16 |-> 7 * i], 0)

\* The secret key of another session than the one whose token is handed over:
\* the operator pairs SESSION_ID with a SECRET_KEY that does not belong to it.
MismatchedSecretKey == RemoveDashes(randomUUID([i \in 1..16 |-> 11 * i]))

\* The environments a process is started in.  A program is run with the
\* variables it reads; the others are left unset.
ProcSettings ==
    {[program |-> p,
      env |-> [RAIN_API_BASE_URL |-> url, USE_PRODUCTION |-> up,
               SESSION_ID |-> sk[1], SECRET_KEY |-> sk[2]]] :
        p \in Programs,
        url \in {Undefined, DevBaseUrl, ProdBaseUrl},
        up \in {Undefined, TrueText},
        sk \in {<<Undefined, Undefined>>,
                <<EarlierSession.sessionId, EarlierSession.secretKey>>,
                <<EarlierSession.sessionId, MismatchedSecretKey>>,
                <<EarlierSession.sessionId, Undefined>>}}

ReadsUseProduction(p) == p # "get_card_payment_details"

ReadsSessionId(p) == p = "get-card-secrets"

FlowInit ==
    /\ session = NoSession
    /\ payload = NoPayload
    /\ dec = NoDec
    /\ world = NoWorld
    /\ proc \in {s \in ProcSettings :
                    /\ ReadsUseProduction(s.program) \/ s.env.USE_PRODUCTION = Undefined
                    /\ ReadsSessionId(s.program) \/ s.env.SESSION_ID = Undefined}
    /\ flow = [r \in Requests |-> NoFlow]
    /\ wire = <<>>
    /\ db = NoDb
    /\ mut = NoMut
    /\ rain = NoRain
    /\ tool = [t \in ToolCalls |-> NoTool]

\* The card a request asks for, and what the remote service holds for it.
CardOf(r) == IF r = "r1" THEN "card-1" ELSE "card-2"

\* "4242424242424242" for card-1, "5555" followed by a line feed for card-2.
PanOf(cardId) == IF cardId = "card-1" THEN Pan ELSE <<53, 53, 53, 53, 10>>

\* "123" and "987"
CvcOf(cardId) == IF cardId = "card-1" THEN <<49, 50, 51>> ELSE <<57, 56, 55>>

\* The random source gives bytes it has not given before: two draws of 122
\* random bits are taken to differ.
FreshDraws == RandomSamples \ {flow[q].rnd : q \in Requests}

\* A slip: get-card-secrets generates a session also when it was given one.
IssuesOwnToken_Always(p) == TRUE

\* if (!finalSessionId): the program provides its own token, unless it is
\* get-card-secrets started with SESSION_ID.
IssuesOwnToken(p) == ~(ReadsSessionId(p.program) /\ Truthy(p.env.SESSION_ID))

\* A slip: the session of a workflow is kept in a module-level variable and
\* handed to the workflows that start after it.
SessionDataFor_Cached(f, p, rnd, seed) ==
    IF \E q \in Requests : f[q].sessionData.ok
    THEN f[CHOOSE q \in Requests : f[q].sessionData.ok].sessionData
    ELSE generateSessionIdForEnv(UseProductionOf(p.program, p.env), Undefined, rnd, seed)

\* const sessionData = generateSessionIdForEnv(useProduction): a local
\* constant of the workflow, made from its own draw of the random source.
SessionDataFor(f, p, rnd, seed) ==
    generateSessionIdForEnv(UseProductionOf(p.program, p.env), Undefined, rnd, seed)

\* What a workflow writes on the console before its request: get-card-secrets
\* prints the secret key it generated, test-mcp-card-details its first 20
\* characters.
ConsoleAtStart(p, sessionData) ==
    IF ~IssuesOwnToken(p) \/ ~sessionData.ok THEN <<>>
    ELSE IF p.program = "get-card-secrets" THEN
        <<[what |-> "SecretKey", text |-> sessionData.secretKey]>>
    ELSE IF p.program = "test-mcp-card-details" THEN
        <<[what |-> "Secret Key", text |-> SubSeq(sessionData.secretKey, 1, 20)]>>
    ELSE <<>>

\* The workflow up to its await: the session token is issued (or taken from
\* SESSION_ID), and getCardSecrets sends it in the SessionId header.
StartRetrieval(r) ==
    /\ proc.program \in Programs
    /\ flow[r].pc = "idle"
    /\ IF IssuesOwnToken(proc) THEN
          \E rnd \in FreshDraws, seed \in OaepSeeds :
           \E sessionData \in {SessionDataFor(flow, proc, rnd, seed)} :
            /\ flow' = [flow EXCEPT ![r] =
                  [@ EXCEPT !.pc = IF sessionData.ok THEN "awaiting" ELSE "done",
                            !.rnd = rnd, !.seed = seed,
                            !.sessionData = sessionData,
                            !.sessionId = sessionData.sessionId,
                            !.secretKey = sessionData.secretKey,
                            !.url = IF sessionData.ok THEN ApiBaseUrl(proc.env) ELSE <<>>,
                            !.result = IF sessionData.ok THEN "none" ELSE "error",
                            !.hist = IF sessionData.ok THEN <<"issue", "send">>
                                     ELSE <<"issue">>]]
            /\ wire' = IF sessionData.ok
                       THEN Append(wire, [from |-> r, cardId |-> CardOf(r),
                                          SessionId |-> sessionData.sessionId,
                                          url |-> ApiBaseUrl(proc.env)])
                       ELSE wire
            /\ world' = [world EXCEPT !.console = @ \o ConsoleAtStart(proc, sessionData)]
       ELSE
            /\ flow' = [flow EXCEPT ![r] =
                  [@ EXCEPT !.pc = "awaiting",
                            !.sessionId = proc.env.SESSION_ID,
                            !.secretKey = proc.env.SECRET_KEY,
                            !.url = ApiBaseUrl(proc.env),
                            !.hist = <<"send">>]]
            /\ wire' = Append(wire, [from |-> r, cardId |-> CardOf(r),
                                     SessionId |-> proc.env.SESSION_ID,
                                     url |-> ApiBaseUrl(proc.env)])
            /\ world' = world
    /\ UNCHANGED <<session, payload, dec, proc, dbVars>>

\* The remote service opens a session token with the private key of its
\* deployment: the 16 bytes of the secret, or nothing.
OpenedSecret(url, sessionId) ==
    LET opened == RsaOaepDecrypt(EndpointPrivateKey(url), Base64Decode(sessionId))
        key == Base64Decode(Utf8Decode(opened.msg))
    IN  IF opened.ok /\ Len(key) = AesKeyLength THEN key ELSE <<>>

\* One field of the response: text sealed under the secret of the session.
EncryptedData(key, iv, text) ==
    [iv |-> Base64Encode(iv), data |-> Base64Encode(GcmSeal(key, iv, Utf8Encode(text)))]

\* The remote service answers a request in flight: with the two encrypted
\* fields when it can open the token, with an error status otherwise.
RemoteAnswers(r) ==
    /\ flow[r].pc = "awaiting"
    /\ \E key \in {OpenedSecret(flow[r].url, flow[r].sessionId)},
          ivPan \in {[i \in 1..12 |-> 0]}, ivCvc \in {[i \in 1..12 |-> 16 * i + 3]},
          pan \in {PanOf(CardOf(r))}, cvc \in {CvcOf(CardOf(r))} :
       flow' = [flow EXCEPT ![r] =
          [@ EXCEPT !.pc = "answered",
                    !.secrets =
                       IF key = <<>> THEN @
                       ELSE [ok |-> TRUE,
                             encryptedPan |-> EncryptedData(key, ivPan, pan),
                             encryptedCvc |-> EncryptedData(key, ivCvc, cvc)]]]
    /\ UNCHANGED <<session, payload, dec, world, proc, wire, dbVars>>

\* The request fails on the way: the network is down, or the service refuses
\* it for another reason than its token.
RequestFails(r) ==
    /\ flow[r].pc = "awaiting"
    /\ flow' = [flow EXCEPT ![r] = [@ EXCEPT !.pc = "answered"]]
    /\ UNCHANGED <<session, payload, dec, world, proc, wire, dbVars>>

\* A slip: the secret key is read from a module-level variable that is set
\* once, by the workflow that sent its request first.
SecretKeyFor_First(f, w, r) == f[w[1].from].secretKey

\* A slip: the secret key is read from a module-level variable that holds the
\* session of the workflow that sent its request last.
SecretKeyFor_Shared(f, w, r) == f[w[Len(w)].from].secretKey

\* sessionData.secretKey (secretKey in get-card-secrets): a local of the
\* workflow.
SecretKeyFor(f, w, r) == f[r].secretKey

\* What a script writes on the console after decrypting: the two values.
ConsoleAtEnd(p, pan, cvc) ==
    IF p.program = "get_card_payment_details" \/ ~pan.ok \/ ~cvc.ok THEN <<>>
    ELSE <<[what |-> "PAN", text |-> pan.value], [what |-> "CVC", text |-> cvc.value]>>

\* What a workflow writes to the stores that outlive it: none of the three
\* programs calls the database or keeps a module-level variable.
StoreAtEnd(store, p, secretKey) == store

\* A slip: a decryption that failed is tried once more on the same values.
DecryptCalls_Retried(secrets, secretKey, pan, cvc) ==
    LET call(field, enc, out) ==
            [field |-> field, data |-> enc.data, iv |-> enc.iv, secretKey |-> secretKey,
             error |-> out.error]
        panCall == call("pan", secrets.encryptedPan, pan)
    IN  IF pan.ok THEN <<panCall, call("cvc", secrets.encryptedCvc, cvc)>>
        ELSE <<panCall, panCall>>

\* The calls of decryptSecret a workflow makes, in order, with the values it
\* passes and the error each ends with ("none" when it returns): the PAN,
\* then the CVC unless the first call threw.  Both calls stand in one try
\* block; no program has a loop around them.
DecryptCalls(secrets, secretKey, pan, cvc) ==
    LET call(field, enc, out) ==
            [field |-> field, data |-> enc.data, iv |-> enc.iv, secretKey |-> secretKey,
             error |-> out.error]
        panCall == call("pan", secrets.encryptedPan, pan)
    IN  IF pan.ok THEN <<panCall, call("cvc", secrets.encryptedCvc, cvc)>>
        ELSE <<panCall>>

\* The workflow after its await: rainApiFetch throws on a failed request;
\* otherwise the two fields are decrypted, the PAN first (get-card-secrets
\* decrypts only when it has a secret key).  The tool returns the two values
\* or the text of the error; the scripts print them.
FinishRetrieval(r) ==
    /\ flow[r].pc = "answered"
    /\ LET secrets == flow[r].secrets
           secretKey == SecretKeyFor(flow, wire, r)
           decrypts == secrets.ok /\ (proc.program # "get-card-secrets" \/ Truthy(secretKey))
       IN
       \E pan \in {IF decrypts
                   THEN decryptSecret(secrets.encryptedPan.data, secrets.encryptedPan.iv, secretKey)
                   ELSE NoFlow.pan} :
       \E cvc \in {IF decrypts /\ pan.ok
                   THEN decryptSecret(secrets.encryptedCvc.data, secrets.encryptedCvc.iv, secretKey)
                   ELSE NoFlow.cvc} :
           /\ flow' = [flow EXCEPT ![r] =
                 [@ EXCEPT !.pc = "done",
                           !.pan = pan,
                           !.cvc = cvc,
                           !.result = IF ~secrets.ok THEN "error"
                                      ELSE IF ~decrypts THEN "encrypted"
                                      ELSE IF pan.ok /\ cvc.ok THEN "details"
                                      ELSE "error",
                           !.calls = IF decrypts
                                     THEN DecryptCalls(secrets, secretKey, pan, cvc)
                                     ELSE <<>>,
                           !.hist = @ \o (IF ~secrets.ok THEN <<"throw">>
                                          ELSE IF ~decrypts THEN <<"receive">>
                                          ELSE IF pan.ok THEN <<"receive", "decrypt", "decrypt">>
                                          ELSE <<"receive", "decrypt">>)]]
           /\ world' = [console |-> world.console \o ConsoleAtEnd(proc, pan, cvc),
                        store |-> StoreAtEnd(world.store, proc, secretKey)]
    /\ UNCHANGED <<session, payload, dec, proc, wire, dbVars>>

FlowNext ==
    \E r \in Requests :
        StartRetrieval(r) \/ RemoteAnswers(r) \/ RequestFails(r) \/ FinishRetrieval(r)

FlowSpec == FlowInit /\ [][FlowNext]_vars

---------------------------------------------------------------------------
(* The Convex tables.  A document is a record of its fields, a table the     *)
(* sequence of its documents in order of creation.  Convex runs a mutation   *)
(* as one transaction, so a handler is one step: what it reads and what it   *)
(* writes belong to the same state of the table.                             *)

\* The number of mutations that are followed.
MaxMutations == 3

\* The field by which the mutations of a table look a document up.
KeyField(table) ==
    CASE table = "cards" -> "rainCardId"
      [] table = "users" -> "rainUserId"
      [] table = "userBalances" -> "userId"
      [] table = "userContracts" -> "rainContractId"

\* Date.now() in the mutation that runs after n others: the clock does not go
\* back, and two mutations in a row may read the same millisecond.
DateNow(n) == 1000 + (n \div 2)

\* ctx.db.query(table).withIndex(..., q => q.eq(field, key)).first(): the
\* place of the first document with that key, 0 when there is none.
First(rows, field, key) ==
    IF \E i \in 1..Len(rows) : rows[i][field] = key
    THEN CHOOSE i \in 1..Len(rows) :
            rows[i][field] = key /\ \A j \in 1..(i - 1) : rows[j][field] # key
    ELSE 0

\* ctx.db.patch(id, fields): the fields given replace those of the document
\* or are added to it, the others stay.
Patch(doc, fields) ==
    [f \in DOMAIN doc \cup DOMAIN fields |->
        IF f \in DOMAIN fields THEN fields[f] ELSE doc[f]]

\* A slip: syncFromRain inserts without looking for the document.
Upsert_AlwaysInsert(rows, field, args, now) ==
    Append(rows, Patch(args, [_id |-> Len(rows) + 1, lastSyncedAt |-> now,
                              createdAt |-> now, updatedAt |-> now]))

\* The handler of syncFromRain, the same in the four modules: patch the
\* document that has the key with the arguments and two timestamps, or insert
\* the arguments with three.
Upsert(rows, field, args, now) ==
    LET existing == First(rows, field, args[field]) IN
    IF existing # 0
    THEN [rows EXCEPT ![existing] =
            Patch(@, Patch(args, [lastSyncedAt |-> now, updatedAt |-> now]))]
    ELSE Append(rows, Patch(args, [_id |-> Len(rows) + 1, lastSyncedAt |-> now,
                                   createdAt |-> now, updatedAt |-> now]))

\* A slip: updateStatus writes the time of the update as the time of the last
\* synchronisation too.
StatusFields_Synced(args, now) ==
    [status |-> args.status, updatedAt |-> now, lastSyncedAt |-> now]

\* The fields updateStatus patches.
StatusFields(args, now) == [status |-> args.status, updatedAt |-> now]

\* The fields updateLimit patches.
LimitFields(args, now) ==
    [limitAmount |-> args.limitAmount, limitFrequency |-> args.limitFrequency,
     updatedAt |-> now]

\* The handler of updateStatus or updateLimit: the card with the rainCardId
\* is patched; when there is none the handler throws and writes nothing.
PatchCard(rows, rainCardId, fields) ==
    LET card == First(rows, "rainCardId", rainCardId) IN
    IF card = 0 THEN rows ELSE [rows EXCEPT ![card] = Patch(@, fields)]

\* What a mutation makes of its table.
MutatedRows(fn, rows, field, args, now) ==
    CASE fn = "syncFromRain" -> Upsert(rows, field, args, now)
      [] fn = "updateStatus" -> PatchCard(rows, args.rainCardId, StatusFields(args, now))
      [] fn = "updateLimit" -> PatchCard(rows, args.rainCardId, LimitFields(args, now))

\* The error a mutation throws, "none" when it returns.
MutationError(fn, rows, args) ==
    IF fn # "syncFromRain" /\ First(rows, "rainCardId", args.rainCardId) = 0
    THEN "Card not found"
    ELSE "none"

\* One mutation runs, as one transaction.
Mutation(fn, table, args) ==
    /\ mut.seq < MaxMutations
    /\ db' = [db EXCEPT ![table] =
                 MutatedRows(fn, @, KeyField(table), args, DateNow(mut.seq))]
    /\ mut' = [seq |-> mut.seq + 1, fn |-> fn, table |-> table, args |-> args,
               error |-> MutationError(fn, db[table], args)]

CardIds == {"card-1", "card-2"}

UserIds == {"user-1", "user-2"}

\* The arguments syncFromRain is called with, per table.  Optional arguments
\* that are not given are not fields of the argument object.
SyncArgs(table) ==
    CASE table = "cards" ->
            {[rainCardId |-> c, userId |-> "user-1", type |-> "virtual",
              status |-> l.status, limitAmount |-> l.amount,
              limitFrequency |-> l.frequency, last4 |-> "4242"] :
                c \in CardIds,
                l \in {[status |-> "active", amount |-> 100, frequency |-> "allTime"],
                       [status |-> "locked", amount |-> 250,
                        frequency |-> "perAuthorization"]}}
      [] table = "users" ->
            {[rainUserId |-> u, email |-> e] :
                u \in UserIds, e \in {"a@example.com", "b@example.com"}}
      [] table = "userBalances" ->
            {[userId |-> u, creditLimit |-> 1000] : u \in UserIds}
            \cup {[userId |-> u, creditLimit |-> 2000, availableCredit |-> 400] :
                     u \in UserIds}
      [] table = "userContracts" ->
            {[rainContractId |-> k, userId |-> "user-1", chainId |-> n] :
                k \in {"contract-1", "contract-2"}, n \in {1, 8453}}

StatusArgs ==
    {[rainCardId |-> c, status |-> s] : c \in CardIds, s \in {"locked", "canceled"}}

LimitArgs ==
    {[rainCardId |-> c, limitAmount |-> 500, limitFrequency |-> f] :
        c \in CardIds, f \in {"per24HourPeriod", "allTime"}}

syncFromRain(table, args) ==
    /\ Mutation("syncFromRain", table, args)
    /\ UNCHANGED <<session, payload, dec, world, flowVars, rain, tool>>

updateStatus(args) ==
    /\ Mutation("updateStatus", "cards", args)
    /\ UNCHANGED <<session, payload, dec, world, flowVars, rain, tool>>

updateLimit(args) ==
    /\ Mutation("updateLimit", "cards", args)
    /\ UNCHANGED <<session, payload, dec, world, flowVars, rain, tool>>

DbNext ==
    \/ \E table \in TableNames : \E args \in SyncArgs(table) : syncFromRain(table, args)
    \/ \E args \in StatusArgs : updateStatus(args)
    \/ \E args \in LimitArgs : updateLimit(args)

DbSpec == Init /\ [][DbNext]_vars

---------------------------------------------------------------------------
(* The MCP tools that write to the remote service and to the tables:         *)
(* update_card_status, update_card_limit and get_user_balance.  A handler    *)
(* awaits the remote service, then the Convex mutation, then answers; it is  *)
(* one action per segment, and the handlers of two calls interleave at the   *)
(* awaits.  updateCard and getUserBalances go through rainApiFetch, which    *)
(* throws when the service does not answer with a success status.            *)

\* The card the table knows: card-1 was synced when the tool create_card made
\* it.  card-2 was made by the script create-card, which writes no table.
SyncedCard ==
    [rainCardId |-> "card-1", userId |-> "user-1", type |-> "virtual",
     status |-> "active", limitAmount |-> 100, limitFrequency |-> "allTime",
     last4 |-> "4242"]

\* What the remote service may answer for the balances of a user: creditLimit
\* always, the other fields or not.
BalanceAnswers ==
    {[creditLimit |-> 1000, spendingPower |-> 0, availableCredit |-> 400,
      pendingCharges |-> 100, postedCharges |-> 200],
     [creditLimit |-> 1000, availableCredit |-> 400, pendingCharges |-> 100],
     [creditLimit |-> 1000, pendingCharges |-> 100, postedCharges |-> 200,
      balanceDue |-> 50],
     [creditLimit |-> 1000, postedCharges |-> 200, outstandingCharges |-> 150],
     [creditLimit |-> 1000]}

ToolInit ==
    /\ session = NoSession
    /\ payload = NoPayload
    /\ dec = NoDec
    /\ world = NoWorld
    /\ proc = NoProc
    /\ flow = [r \in Requests |-> NoFlow]
    /\ wire = <<>>
    /\ db = [NoDb EXCEPT !.cards = Upsert(<<>>, "rainCardId", SyncedCard, DateNow(0))]
    /\ mut = [seq |-> 1, fn |-> "syncFromRain", table |-> "cards",
              args |-> SyncedCard, error |-> "none"]
    /\ \E b \in BalanceAnswers :
          rain = [cards |-> [c \in CardIds |->
                                [id |-> c, status |-> "active",
                                 limit |-> [amount |-> 100, frequency |-> "allTime"]]],
                  balances |-> [u \in {"user-1"} |-> b]]
    /\ tool = [t \in ToolCalls |-> NoTool]

\* The arguments a tool is called with.
ToolArgs(name) ==
    CASE name = "update_card_status" ->
            {[cardId |-> c, status |-> s] : c \in CardIds, s \in {"locked", "canceled"}}
      [] name = "update_card_limit" ->
            {[cardId |-> c, limitAmount |-> 500, limitFrequency |-> "perAuthorization"] :
                c \in CardIds}
      [] name = "get_user_balance" -> {[userId |-> "user-1"]}

ToolNames == {"update_card_status", "update_card_limit", "get_user_balance"}

\* x ?? y on a field that may be missing from an object.
Coalesce(obj, field, otherwise) ==
    IF field \in DOMAIN obj THEN obj[field] ELSE otherwise

\* (balance.pendingCharges ?? 0) + (balance.postedCharges ?? 0)
TotalCharges(balance) ==
    Coalesce(balance, "pendingCharges", 0) + Coalesce(balance, "postedCharges", 0)

\* balance.spendingPower ?? balance.availableCredit ??
\*     (balance.creditLimit - totalCharges)
AvailableCredit(balance) ==
    Coalesce(balance, "spendingPower",
             Coalesce(balance, "availableCredit",
                      balance.creditLimit - TotalCharges(balance)))

\* The arguments of the mutation a tool calls after the remote service has
\* answered.  A field whose value is undefined is not sent.
SyncCall(name, args, fetched) ==
    CASE name = "update_card_status" ->
            [fn |-> "updateStatus", table |-> "cards",
             args |-> [rainCardId |-> args.cardId, status |-> fetched.status]]
      [] name = "update_card_limit" ->
            [fn |-> "updateLimit", table |-> "cards",
             args |-> [rainCardId |-> args.cardId,
                       limitAmount |-> fetched.limit.amount,
                       limitFrequency |-> fetched.limit.frequency]]
      [] name = "get_user_balance" ->
            [fn |-> "syncFromRain", table |-> "userBalances",
             args |-> Patch(
                 [userId |-> args.userId, creditLimit |-> fetched.creditLimit,
                  outstandingCharges |->
                      Coalesce(fetched, "outstandingCharges", TotalCharges(fetched)),
                  availableCredit |-> AvailableCredit(fetched)],
                 IF "balancesDue" \in DOMAIN fetched
                 THEN [balancesDue |-> fetched.balancesDue]
                 ELSE IF "balanceDue" \in DOMAIN fetched
                 THEN [balancesDue |-> fetched.balanceDue]
                 ELSE <<>>)]

\* A slip: get_user_balance answers with the error when the write to the
\* table failed.
ToolAnswer_SyncRequired(name, args, fetched, syncError) ==
    IF syncError # "none" THEN [ok |-> FALSE, error |-> syncError]
    ELSE IF name = "get_user_balance" THEN
        [ok |-> TRUE, error |-> "none", userId |-> args.userId,
         creditLimit |-> fetched.creditLimit,
         availableCredit |-> AvailableCredit(fetched),
         pendingCharges |-> Coalesce(fetched, "pendingCharges", 0),
         postedCharges |-> Coalesce(fetched, "postedCharges", 0),
         totalCharges |-> TotalCharges(fetched),
         balanceDue |-> Coalesce(fetched, "balanceDue", 0)]
    ELSE IF name = "update_card_status" THEN
        [ok |-> TRUE, error |-> "none", cardId |-> fetched.id, status |-> fetched.status]
    ELSE
        [ok |-> TRUE, error |-> "none", cardId |-> fetched.id, limit |-> fetched.limit]

\* What a tool answers once the remote service has answered and the mutation
\* has returned or thrown (syncError).  The update tools have one try block
\* around both awaits; get_user_balance catches the error of the mutation,
\* logs it and answers with the balance.
ToolAnswer(name, args, fetched, syncError) ==
    IF name = "get_user_balance" THEN
        [ok |-> TRUE, error |-> "none", userId |-> args.userId,
         creditLimit |-> fetched.creditLimit,
         availableCredit |-> AvailableCredit(fetched),
         pendingCharges |-> Coalesce(fetched, "pendingCharges", 0),
         postedCharges |-> Coalesce(fetched, "postedCharges", 0),
         totalCharges |-> TotalCharges(fetched),
         balanceDue |-> Coalesce(fetched, "balanceDue", 0)]
    ELSE IF syncError # "none" THEN [ok |-> FALSE, error |-> syncError]
    ELSE IF name = "update_card_status" THEN
        [ok |-> TRUE, error |-> "none", cardId |-> fetched.id, status |-> fetched.status]
    ELSE
        [ok |-> TRUE, error |-> "none", cardId |-> fetched.id, limit |-> fetched.limit]

\* What the remote service and the table hold for the card of a call, for
\* the tools that update a card.
CardInBoth(name, args) ==
    IF name = "get_user_balance" THEN <<>>
    ELSE [rain |-> rain.cards[args.cardId],
          convex |-> SelectSeq(db.cards, LAMBDA d : d.rainCardId = args.cardId)]

\* A tool is called: the handler sends its request to the remote service.
\* The call keeps what both sides held for its card at that moment.
CallTool(t) ==
    /\ tool[t].pc = "idle"
    /\ \E name \in ToolNames : \E args \in ToolArgs(name) :
          tool' = [tool EXCEPT ![t] =
                      [@ EXCEPT !.pc = "awaitRain", !.name = name, !.args = args,
                                !.before = CardInBoth(name, args)]]
    /\ UNCHANGED <<session, payload, dec, world, flowVars, db, mut, rain>>

\* The remote service applies the update of a card and answers with the card.
RainUpdatesCard(t) ==
    /\ tool[t].pc = "awaitRain"
    /\ tool[t].name \in {"update_card_status", "update_card_limit"}
    /\ LET c == tool[t].args.cardId
           card == IF tool[t].name = "update_card_status"
                   THEN [rain.cards[c] EXCEPT !.status = tool[t].args.status]
                   ELSE [rain.cards[c] EXCEPT
                            !.limit = [amount |-> tool[t].args.limitAmount,
                                       frequency |-> tool[t].args.limitFrequency]]
       IN  /\ rain' = [rain EXCEPT !.cards[c] = card]
           /\ tool' = [tool EXCEPT ![t] = [@ EXCEPT !.pc = "awaitConvex", !.fetched = card]]
    /\ UNCHANGED <<session, payload, dec, world, flowVars, db, mut>>

\* The remote service answers with the balances of the user.
RainAnswersBalance(t) ==
    /\ tool[t].pc = "awaitRain"
    /\ tool[t].name = "get_user_balance"
    /\ tool' = [tool EXCEPT ![t] =
                   [@ EXCEPT !.pc = "awaitConvex",
                             !.fetched = rain.balances[tool[t].args.userId]]]
    /\ UNCHANGED <<session, payload, dec, world, flowVars, db, mut, rain>>

\* The balances of the user change at the remote service: charges are made
\* and posted while the tools run.
RainBalanceChanges ==
    /\ \E u \in DOMAIN rain.balances : \E b \in BalanceAnswers \ {rain.balances[u]} :
          rain' = [rain EXCEPT !.balances[u] = b]
    /\ UNCHANGED <<session, payload, dec, world, flowVars, db, mut, tool>>

\* The remote service refuses the request or cannot be reached: rainApiFetch
\* throws, nothing was changed, and the tool answers with the error.
RainRefuses(t) ==
    /\ tool[t].pc = "awaitRain"
    /\ tool' = [tool EXCEPT ![t] =
                   [@ EXCEPT !.pc = "done",
                             !.result = [ok |-> FALSE, error |-> "Rain API error"]]]
    /\ UNCHANGED <<session, payload, dec, world, flowVars, db, mut, rain>>

\* client.mutation(...) runs the mutation; the tool answers with what the
\* remote service returned, or with the error the mutation threw.
SyncToConvex(t) ==
    /\ tool[t].pc = "awaitConvex"
    /\ LET call == SyncCall(tool[t].name, tool[t].args, tool[t].fetched)
           error == MutationError(call.fn, db[call.table], call.args)
       IN  /\ Mutation(call.fn, call.table, call.args)
           /\ tool' = [tool EXCEPT ![t] =
                 [@ EXCEPT !.pc = "done",
                           !.synced = error = "none",
                           !.result = ToolAnswer(tool[t].name, tool[t].args,
                                                 tool[t].fetched, error)]]
    /\ UNCHANGED <<session, payload, dec, world, flowVars, rain>>

\* client.mutation(...) rejects without the mutation having run: the Convex
\* deployment cannot be reached.
SyncFails(t) ==
    /\ tool[t].pc = "awaitConvex"
    /\ tool' = [tool EXCEPT ![t] =
                   [@ EXCEPT !.pc = "done",
                             !.result = ToolAnswer(tool[t].name, tool[t].args,
                                                   tool[t].fetched, "Convex unreachable")]]
    /\ UNCHANGED <<session, payload, dec, world, flowVars, db, mut, rain>>

ToolNext ==
    \/ \E t \in ToolCalls :
          \/ CallTool(t) \/ RainUpdatesCard(t) \/ RainAnswersBalance(t) \/ RainRefuses(t)
          \/ SyncToConvex(t) \/ SyncFails(t)
    \/ RainBalanceChanges

ToolSpec == ToolInit /\ [][ToolNext]_vars

---------------------------------------------------------------------------
(* Properties of the unwrapper *)

\* The call in dec was made on the payload in hand, with its three values.
CalledOnPayload == dec.called /\ ~dec.faulty

\* v is t without the white space at its two ends.
IsTrimOf(v, t) ==
    /\ (v # <<>> => ~IsJsWhitespace(v[1]) /\ ~IsJsWhitespace(v[Len(v)]))
    /\ \E lead \in 0..Len(t) :
          /\ lead + Len(v) <= Len(t)
          /\ v = SubSeq(t, lead + 1, lead + Len(v))
          /\ \A i \in (1..lead) \cup ((lead + Len(v) + 1)..Len(t)) : IsJsWhitespace(t[i])

\* C1: a call on an authentic payload of which one bit of the decoded data or
\* of the decoded iv was inverted, or with another 16-byte key than the one it
\* was sealed under, fails with AuthenticationFailure and returns no value.
C1_TamperRejected ==
    (CalledOnPayload /\ payload.tamper \in {"data", "iv", "key"})
        => /\ ~dec.out.ok
           /\ dec.out.error = "AuthenticationFailure"
           /\ dec.out.value = <<>>

C1_Witness ==
    /\ CalledOnPayload
    /\ payload.tamper = "data"
    /\ payload.pt = Pan
    /\ dec.out.error = "AuthenticationFailure"

\* C2: a call on an authentic payload (ciphertext followed by the 16-byte tag)
\* with the key and the IV it was sealed under returns the plaintext without
\* the white space at its ends.
C2_RoundTrip ==
    (CalledOnPayload /\ payload.tamper \in {"none", "spelling"})
        => /\ dec.out.ok
           /\ IsTrimOf(dec.out.value, payload.pt)

C2_Witness ==
    /\ CalledOnPayload
    /\ payload.tamper = "none"
    /\ payload.pt = <<32, 233, 32>>
    /\ dec.out.ok
    /\ dec.out.value = <<233>>

\* A secret that is missing, empty or holds a character that is no hex digit.
MalformedSecret(k) == k = Undefined \/ k = <<>> \/ \E i \in 1..Len(k) : ~IsHexChar(k[i])

C4_RejectedBeforeCrypto ==
    (dec.called /\ (dec.data = <<>> \/ dec.iv = <<>> \/ dec.secret \in NonHexSecrets))
        => /\ ~dec.out.ok
           /\ dec.out.error = "InvalidInput"
           /\ dec.out.steps = <<"validate">>

C4_Witness ==
    /\ dec.called
    /\ Truthy(dec.data) /\ Truthy(dec.iv) /\ dec.secret \in NonHexSecrets
    /\ dec.out.error = "InvalidInput"
    /\ dec.out.steps = <<"validate">>

---------------------------------------------------------------------------
(* Properties of the issuer *)

\* The bytes a text of hex digits denotes, two digits a byte.
HexBytesOf(s) ==
    [i \in 1..(Len(s) \div 2) |-> 16 * HexVal(s[2 * i - 1]) + HexVal(s[2 * i])]

\* A text of hex digits that encodes whole bytes.
HexInvariant(s) == HexRegexTest(s) /\ Len(s) % 2 = 0

\* A text of exactly 32 hex digits: 16 bytes.
IsSymmetricSecret(s) == HexRegexTest(s) /\ Len(s) = 32

\* The environment a call selects, and the key pair of an environment.
SelectedEnv ==
    IF session.fn = "generateSessionIdForEnv"
    THEN (IF session.useProduction = "true" THEN "production" ELSE "sandbox")
    ELSE (IF session.pem = PROD_PUBLIC_KEY THEN "production" ELSE "sandbox")

EnvPrivateKey(env) == IF env = "production" THEN PROD_PRIVATE_KEY ELSE DEV_PRIVATE_KEY

OtherEnv(env) == IF env = "production" THEN "sandbox" ELSE "production"

\* What the remote service of an environment reads in the token of the call.
TokenOpenedBy(env) ==
    RsaOaepDecrypt(EnvPrivateKey(env), Base64Decode(session.out.sessionId))

\* C5: a supplied secret that is no hex string of whole bytes (a character that
\* is no hex digit, the empty string, an odd number of digits) makes the call
\* fail with InvalidInput before the random source is read or anything is
\* encrypted, and nothing is returned.
C5_BadSecretRejected ==
    (session.called /\ session.secret # Undefined /\ ~HexInvariant(session.secret))
        => /\ ~session.out.ok
           /\ session.out.error = "InvalidInput"
           /\ session.out.steps = <<"validate">>

\* C6: the token of a successful call, opened with the private key of the
\* selected environment, is the UTF-8 text of the base64 text of the bytes the
\* returned secret denotes.
C6_TokenLinkedToSecret ==
    (session.called /\ session.out.ok)
        => /\ TokenOpenedBy(SelectedEnv).ok
           /\ TokenOpenedBy(SelectedEnv).msg
                 = Utf8Encode(Base64Encode(HexBytesOf(session.out.secretKey)))

C6_Witness ==
    /\ session.called /\ session.out.ok
    /\ session.secret = Undefined
    /\ session.useProduction = "true"
    /\ TokenOpenedBy("production").ok
    /\ Len(TokenOpenedBy("production").msg) = 24

\* C7: a call for the sandbox (useProduction false or omitted) encrypts under
\* the sandbox key and a call for production under the production key: the
\* token opens with the private key of its environment and not with the other.
C7_EnvironmentKey ==
    (session.called /\ session.fn = "generateSessionIdForEnv")
        => /\ session.out.publicKey
                 = (IF SelectedEnv = "production" THEN PROD_PUBLIC_KEY ELSE DEV_PUBLIC_KEY)
           /\ session.out.ok
                 => /\ TokenOpenedBy(SelectedEnv).ok
                    /\ ~TokenOpenedBy(OtherEnv(SelectedEnv)).ok

C7_Witness ==
    /\ session.called /\ session.fn = "generateSessionIdForEnv"
    /\ session.useProduction = "undefined"
    /\ session.out.ok
    /\ session.out.publicKey = DEV_PUBLIC_KEY
    /\ ~TokenOpenedBy("production").ok

\* C8: a supplied secret of 32 hex digits is returned as the secret, character
\* for character, whatever the environment and the token.
C8_SuppliedSecretReturned ==
    (session.called /\ session.secret # Undefined /\ IsSymmetricSecret(session.secret)
       /\ IsPublicKey(SelectPublicKey(session.pem)))
        => /\ session.out.ok
           /\ session.out.secretKey = session.secret

C8_Witness ==
    /\ session.called /\ session.out.ok
    /\ session.secret = UpperKey
    /\ session.out.secretKey = UpperKey
    /\ session.seed = MaxOaepSeed

\* C9: the secret of every successful call is 32 hex digits.
C9_SecretIs32HexDigits ==
    (session.called /\ session.out.ok) => IsSymmetricSecret(session.out.secretKey)

\* C10: with no secret supplied the returned secret is the 16 bytes of the
\* random source written as 32 hex digits, every byte as the source gave it.
C10_AllBytesRandom ==
    (session.called /\ session.secret = Undefined /\ session.out.ok)
        => /\ IsSymmetricSecret(session.out.secretKey)
           /\ HexBytesOf(session.out.secretKey) = session.rnd

\* C10 as amended: with no secret supplied the returned secret is 32 lower-case
\* hex digits without dashes, the hex form of a version-4 UUID: 14 of its 16
\* bytes are the bytes of the random source, the high half of the 7th byte is
\* the version 4 and the two high bits of the 9th byte are the variant 10.
C10_UuidWithoutDashes ==
    (session.called /\ session.secret = Undefined /\ session.out.ok)
        => /\ IsSymmetricSecret(session.out.secretKey)
           /\ \A i \in 1..32 : session.out.secretKey[i] \in (48..57) \cup (97..102)
           /\ LET b == HexBytesOf(session.out.secretKey) IN
              /\ \A i \in (1..16) \ {7, 9} : b[i] = session.rnd[i]
              /\ b[7] = 64 + (session.rnd[7] % 16)
              /\ b[9] = 128 + (session.rnd[9] % 64)

C10_Witness ==
    /\ session.called /\ session.secret = Undefined /\ session.out.ok
    /\ session.rnd = [i \in 1..16 |-> 255]
    /\ SubSeq(session.out.secretKey, 13, 18) = <<52, 102, 102, 102, 98, 102>>

\* The cipher took the key, the IV and the tag of the call, and update() ran:
\* the decoded data was accepted for decryption.
AcceptedForDecryption == dec.called /\ dec.mid.reached = "decrypted"

\* C11: whenever the decoded data of a call is accepted for decryption, the
\* tag handed to the cipher is exactly the last 16 bytes of the decoded data,
\* the ciphertext is all the bytes before them, and the ciphertext followed by
\* the tag is the decoded data.
C11_SplitAtLast16 ==
    AcceptedForDecryption =>
        LET b == dec.mid.secret IN
        /\ Len(dec.mid.authTag) = 16
        /\ dec.mid.authTag = SubSeq(b, Len(b) - 15, Len(b))
        /\ dec.mid.ciphertext = SubSeq(b, 1, Len(b) - 16)
        /\ dec.mid.ciphertext \o dec.mid.authTag = b

\* C12: the value a call returns is the text it decrypted without the white
\* space at its two ends and with nothing else changed: it neither starts nor
\* ends with white space, all that lies between is kept as it was, and
\* trimming it again changes nothing.
C12_TrimmedOnly ==
    (dec.called /\ dec.out.ok) =>
        LET decrypted == Utf8Decode(dec.mid.plain)
            v == dec.out.value
        IN  /\ IsTrimOf(v, decrypted)
            /\ JsTrim(v) = v

C12_Witness ==
    /\ CalledOnPayload
    /\ payload.tamper = "none"
    /\ payload.pt = PaddedText
    /\ Utf8Decode(dec.mid.plain) = PaddedText
    /\ dec.out.ok
    /\ dec.out.value = <<52, 32, 50>>

\* Padded standard base64: letters, digits, '+' and '/', in groups of four,
\* with '=' only as the last or the last two characters.
IsWellFormedBase64(s) ==
    /\ Len(s) % 4 = 0
    /\ \A i \in 1..Len(s) :
          \/ s[i] \in (65..90) \cup (97..122) \cup (48..57) \cup {43, 47}
          \/ /\ s[i] = 61
             /\ i >= Len(s) - 1
             /\ s[Len(s)] = 61

\* Bytes that are the UTF-8 form of some text.
IsWellFormedUtf8(b) == Utf8Encode(Utf8Decode(b)) = b

\* The call passed the three guards, and its data or iv text is no well-formed
\* base64, or the bytes it decrypted under a verified tag are no well-formed
\* UTF-8.
UndecodableCall ==
    /\ dec.called
    /\ ValidateInputs(dec.data, dec.iv, dec.secret) = "none"
    /\ \/ ~IsWellFormedBase64(dec.data)
       \/ ~IsWellFormedBase64(dec.iv)
       \/ /\ dec.mid.reached = "decrypted"
          /\ GcmTagVerifies(dec.mid.secretKeyBuffer, dec.mid.iv,
                            dec.mid.ciphertext, dec.mid.authTag)
          /\ ~IsWellFormedUtf8(dec.mid.plain)

\* C13: a call whose data or iv is malformed base64, or whose decrypted bytes
\* are no well-formed UTF-8, fails with DecodingError and returns no text.
C13_MalformedRejected ==
    UndecodableCall => ~dec.out.ok /\ dec.out.error = "DecodingError"

\* The four kinds of error of the specification.
ErrorKinds == {"InvalidInput", "AuthenticationFailure", "DecodingError", "KeyConfigurationError"}

\* C14: a failing call of decryptSecret or of generateSessionId returns no
\* value, neither a default nor a part of one, and its error is of one of the
\* four kinds.
C14_FailureIsOneOfFourKinds ==
    /\ (dec.called /\ ~dec.out.ok) =>
          /\ dec.out.value = <<>>
          /\ dec.out.error \in ErrorKinds
    /\ (session.called /\ ~session.out.ok) =>
          /\ session.out.secretKey = <<>>
          /\ session.out.sessionId = <<>>
          /\ session.out.error \in ErrorKinds

\* C20: a call of decryptSecret changes nothing outside its return value: the
\* console and the stores (database tables, caches, module-level variables)
\* are after the call what they were before it, so none of them holds the
\* decrypted text, the secret or an intermediate value of the call.
C20_DecryptChangesNothing ==
    [][(~dec.called /\ dec'.called) => world' = world]_vars

C20_Witness ==
    /\ CalledOnPayload
    /\ payload.tamper = "none"
    /\ payload.pt = Pan
    /\ dec.out.ok
    /\ dec.out.value = Pan
    /\ world = NoWorld

---------------------------------------------------------------------------
(* Properties of the retrieval workflows *)

\* The workflow of r called decryptSecret.
Decrypted(r) == \E i \in 1..Len(flow[r].hist) : flow[r].hist[i] = "decrypt"

\* The outcomes of the decryptSecret calls of r are those of its own inputs:
\* the fields of its own response and its own secret key; and when the remote
\* service sealed the fields under the secret of r, they are the values of the
\* card r asked for.
OwnOutcome(r) ==
    LET f == flow[r] IN
    /\ f.pan = decryptSecret(f.secrets.encryptedPan.data, f.secrets.encryptedPan.iv,
                             f.secretKey)
    /\ f.pan.ok =>
          f.cvc = decryptSecret(f.secrets.encryptedCvc.data, f.secrets.encryptedCvc.iv,
                                f.secretKey)
    /\ f.sessionData.ok =>
          /\ f.pan.ok /\ IsTrimOf(f.pan.value, PanOf(CardOf(r)))
          /\ f.cvc.ok /\ IsTrimOf(f.cvc.value, CvcOf(CardOf(r)))

\* The secret and the token a workflow holds are not changed by a step of
\* any workflow.
SessionKept(r) ==
    flow[r].pc # "idle" =>
        /\ flow'[r].sessionData = flow[r].sessionData
        /\ flow'[r].secretKey = flow[r].secretKey
        /\ flow'[r].sessionId = flow[r].sessionId

\* C15: calls share no state.  However the steps of two workflows interleave,
\* the outcome of each decryptSecret call is that of its own three arguments,
\* and the secret and the token of an issuance are never changed by a call
\* made for another request.
C15_CallsIndependent ==
    /\ [](\A r \in Requests : Decrypted(r) => OwnOutcome(r))
    /\ [][\A r \in Requests : SessionKept(r)]_vars

\* The request of r2 was sent first and is still awaited, while r1, sent
\* after it under another secret, has decrypted its response.
C15_Witness ==
    /\ Len(wire) = 2 /\ wire[1].from = "r2" /\ wire[2].from = "r1"
    /\ flow["r2"].pc = "awaiting"
    /\ flow["r1"].pc = "done" /\ Decrypted("r1")
    /\ flow["r1"].secretKey # flow["r2"].secretKey
    /\ flow["r1"].pan.ok /\ flow["r1"].pan.value = Pan

\* In the history h, every step b comes after a step a.
Precedes(h, a, b) ==
    \A i \in 1..Len(h) : h[i] = b => \E j \in 1..(i - 1) : h[j] = a

\* The requests that r sent.
SentBy(r) == SelectSeq(wire, LAMBDA m : m.from = r)

\* C16 as stated: in every workflow the steps come in the order issue, send,
\* decrypt: no request is sent before a token was issued in that workflow, and
\* no field is decrypted before the response was received.
C16_IssueSendDecrypt ==
    \A r \in Requests :
        /\ Precedes(flow[r].hist, "issue", "send")
        /\ Precedes(flow[r].hist, "send", "receive")
        /\ Precedes(flow[r].hist, "receive", "decrypt")

\* get-card-secrets was started with a session token in SESSION_ID.
SessionIdGiven == proc.program = "get-card-secrets" /\ Truthy(proc.env.SESSION_ID)

\* C16, amended: no field is decrypted before the response was received, and
\* no response is received before the request was sent.  A workflow that was
\* not given a token issues one before it sends its request, and sends that
\* token; get-card-secrets started with SESSION_ID issues no token and sends
\* the one it was given.
C16_OrderOfSteps ==
    \A r \in Requests :
        /\ Precedes(flow[r].hist, "send", "receive")
        /\ Precedes(flow[r].hist, "receive", "decrypt")
        /\ ~SessionIdGiven =>
              /\ Precedes(flow[r].hist, "issue", "send")
              /\ \A i \in 1..Len(SentBy(r)) :
                    /\ flow[r].sessionData.ok
                    /\ SentBy(r)[i].SessionId = flow[r].sessionData.sessionId
        /\ SessionIdGiven =>
              /\ \A i \in 1..Len(flow[r].hist) : flow[r].hist[i] # "issue"
              /\ \A i \in 1..Len(SentBy(r)) :
                    SentBy(r)[i].SessionId = proc.env.SESSION_ID

\* get-card-secrets, started with SESSION_ID and SECRET_KEY, sent the token it
\* was given without issuing one, received the response and decrypted it.
C16_Witness ==
    /\ SessionIdGiven
    /\ flow["r1"].hist = <<"send", "receive", "decrypt", "decrypt">>
    /\ SentBy("r1")[1].SessionId = EarlierSession.sessionId
    /\ flow["r1"].result = "details"

\* The requests that hold a secret key.
Keyed == {r \in Requests : Truthy(flow[r].secretKey)}

\* No session token was sent twice, by one request or by two.
EachTokenSentOnce ==
    \A i, j \in 1..Len(wire) : i # j => wire[i].SessionId # wire[j].SessionId

\* No two requests hold the same secret key.
NoSecretShared ==
    \A r, q \in Keyed : r # q => flow[r].secretKey # flow[q].secretKey

\* No store holds the secret key or the session token of a request.
NothingStored ==
    \A r \in Requests :
        flow[r].secretKey \notin world.store /\ flow[r].sessionId \notin world.store

\* C17 as stated: every request has a secret and a token of its own, the token
\* is sent once, and the secret is written to no store.
C17_FreshEachRequest ==
    /\ EachTokenSentOnce
    /\ NoSecretShared
    /\ NothingStored

\* C17, amended: a workflow sends one request at most, and no store holds a
\* secret key or a token.  A workflow that was not given a token holds the
\* secret made from its own draw of the random source and sends the token
\* issued with it, so that no two requests share a secret or a token (the
\* random source taken not to repeat itself).  The runs of get-card-secrets
\* started with SESSION_ID all send the token they were given.  The tool
\* writes nothing on the console.
C17_FreshWhenIssued ==
    /\ \A r \in Requests : Len(SentBy(r)) <= 1
    /\ NothingStored
    /\ ~SessionIdGiven =>
          /\ EachTokenSentOnce
          /\ NoSecretShared
          /\ \A r \in Keyed :
                /\ flow[r].secretKey = RemoveDashes(randomUUID(flow[r].rnd))
                /\ flow[r].secretKey = flow[r].sessionData.secretKey
                /\ flow[r].sessionId = flow[r].sessionData.sessionId
    /\ SessionIdGiven =>
          \A i \in 1..Len(wire) : wire[i].SessionId = proc.env.SESSION_ID
    /\ proc.program = "get_card_payment_details" => world.console = <<>>

\* Two requests of the tool, each finished under a secret and a token of its own.
C17_Witness ==
    /\ proc.program = "get_card_payment_details"
    /\ flow["r1"].result = "details" /\ flow["r2"].result = "details"
    /\ Len(wire) = 2
    /\ wire[1].SessionId # wire[2].SessionId
    /\ flow["r1"].secretKey # flow["r2"].secretKey
    /\ world.store = {}

\* The environment a public key belongs to.
KeyEnv(pem) == IF pem = PROD_PUBLIC_KEY THEN "production" ELSE "sandbox"

\* C18: in every workflow that issues a token, the public key the token is
\* built with belongs to the environment of the endpoint the token is sent to.
C18_KeyMatchesEndpoint ==
    \A r \in Requests :
        (flow[r].sessionData.ok /\ Len(SentBy(r)) > 0) =>
            KeyEnv(flow[r].sessionData.publicKey) = EndpointEnv(SentBy(r)[1].url)

\* The requests for which generateSessionIdForEnv was called.
Issuing == {r \in Requests : flow[r].sessionData.steps # <<>>}

\* The key of the environment the configuration of the process selects.
ConfiguredKey ==
    IF proc.program = "get_card_payment_details"
    THEN (IF proc.env.RAIN_API_BASE_URL = ProdBaseUrl THEN PROD_PUBLIC_KEY
          ELSE DEV_PUBLIC_KEY)
    ELSE (IF proc.env.USE_PRODUCTION = TrueText THEN PROD_PUBLIC_KEY ELSE DEV_PUBLIC_KEY)

CallPlaces == {<<r, i>> : r \in Requests, i \in 1..2} \cap
              {p \in Requests \X (1..2) : p[2] <= Len(flow[p[1]].calls)}

CallAt(p) == flow[p[1]].calls[p[2]]

\* Two calls were made with the same key on the same payload.
SameKeyAndPayload(c, d) ==
    c.secretKey = d.secretKey /\ c.data = d.data /\ c.iv = d.iv

\* No call that failed with AuthenticationFailure has a second call, in the
\* same workflow or in another, with its key and its payload.
NoRetryOfFailedPair ==
    \A p, q \in CallPlaces :
        (p # q /\ CallAt(p).error = "AuthenticationFailure")
            => ~SameKeyAndPayload(CallAt(p), CallAt(q))

\* Some workflow other than r had a decryption fail its authentication.
FailedBefore(r) ==
    \E q \in Requests \ {r} :
        \E i \in 1..Len(flow[q].calls) : flow[q].calls[i].error = "AuthenticationFailure"

\* Workflow r decrypts in this step.
DecryptsNow(r) == flow[r].calls = <<>> /\ flow'[r].calls # <<>>

\* Workflow r decrypts what its own request brought back.
DecryptsOwnFetch(r) ==
    /\ Len(SentBy(r)) = 1
    /\ Precedes(flow'[r].hist, "send", "receive")
    /\ Precedes(flow'[r].hist, "receive", "decrypt")
    /\ flow'[r].calls[1].data = flow[r].secrets.encryptedPan.data
    /\ flow'[r].calls[1].iv = flow[r].secrets.encryptedPan.iv

C22_UnparseableKeyStopsStartup ==
    session.called => IsPublicKey(SelectPublicKey(session.pem))

\* The secret key that the issuer returned together with a token: the one of
\* the workflow's own session, or the one of the earlier session whose token
\* the operator handed over.
SecretIssuedWith(r, token) ==
    IF flow[r].sessionData.ok /\ flow[r].sessionData.sessionId = token
    THEN flow[r].sessionData.secretKey
    ELSE IF token = EarlierSession.sessionId THEN EarlierSession.secretKey
    ELSE Undefined

\* Every call of a workflow passes the same secret key, and the payloads are
\* the two fields of the response to the workflow's own request.
OneSecretForBothFields(r) ==
    /\ \A i, j \in 1..Len(flow[r].calls) :
          flow[r].calls[i].secretKey = flow[r].calls[j].secretKey
    /\ \A i \in 1..Len(flow[r].calls) :
          LET c == flow[r].calls[i]
              enc == IF c.field = "pan" THEN flow[r].secrets.encryptedPan
                     ELSE flow[r].secrets.encryptedCvc
          IN  c.data = enc.data /\ c.iv = enc.iv /\ Len(SentBy(r)) = 1

\* C23 as stated: the secret key of every decryptSecret call is the one issued
\* with the token that the workflow sent, and both fields of a response are
\* decrypted with it.
C23_SecretOfSentToken ==
    \A r \in Requests :
        /\ OneSecretForBothFields(r)
        /\ \A i \in 1..Len(flow[r].calls) :
              flow[r].calls[i].secretKey = SecretIssuedWith(r, SentBy(r)[1].SessionId)

\* C23, amended: both fields of a response are decrypted with one secret key.
\* In a workflow that issued its token it is the secret key issued with the
\* token sent; in get-card-secrets started with SESSION_ID it is the value of
\* SECRET_KEY, whichever session that belongs to.
C23_SecretOfWorkflow ==
    \A r \in Requests :
        /\ OneSecretForBothFields(r)
        /\ \A i \in 1..Len(flow[r].calls) :
              /\ ~SessionIdGiven =>
                    flow[r].calls[i].secretKey =
                        SecretIssuedWith(r, SentBy(r)[1].SessionId)
              /\ SessionIdGiven => flow[r].calls[i].secretKey = proc.env.SECRET_KEY

\* Two requests of the MCP tool were served; each decrypted its two fields with
\* the secret key of its own session, and the two keys differ.
C23_Witness ==
    /\ proc.program = "get_card_payment_details"
    /\ \A r \in Requests :
          /\ Len(flow[r].calls) = 2
          /\ flow[r].calls[1].secretKey = flow[r].sessionData.secretKey
          /\ flow[r].calls[2].secretKey = flow[r].sessionData.secretKey
          /\ flow[r].result = "details"
    /\ flow["r1"].calls[1].secretKey # flow["r2"].calls[1].secretKey
    /\ wire[1].from = "r1"

\* C24: the issuer and the unwrapper agree on what a secret key is: whatever
\* secret key a successful call of the issuer returns, decryptSecret called
\* with it on a payload that has data and iv does not refuse the secret key.
C24_IssuedSecretPassesValidation ==
    (session.called /\ session.out.ok)
        => ValidateInputs(<<65>>, <<65>>, session.out.secretKey) # "secretKey"

\* The call in dec was made with data, an iv and a secret key of hexadecimal
\* digits only, whose number of digits is not 32.
HexKeyOfOtherSize ==
    /\ dec.called
    /\ Truthy(dec.data) /\ Truthy(dec.iv)
    /\ Truthy(dec.secret) /\ HexRegexTest(dec.secret)
    /\ Len(dec.secret) # 2 * AesKeyLength

\* C25: a secret key of hexadecimal digits that is not 32 digits long is
\* refused by the validation, as InvalidInput naming the secret key, before
\* anything is decoded and before the cipher is initialised.
C25_KeyOfOtherSizeRejected ==
    HexKeyOfOtherSize =>
        /\ dec.out.error = "InvalidInput" /\ dec.out.field = "secretKey"
        /\ dec.out.steps = <<"validate">>
        /\ dec.mid.reached = "none"

\* The call in dec went as far as checking the authentication tag.
TagVerified ==
    dec.called /\ \E i \in 1..Len(dec.out.steps) : dec.out.steps[i] = "final"

\* C26: the tag that is checked is 16 bytes long, and a call on data that
\* decodes to fewer than 16 bytes fails without any tag being checked.
C26_TagIsSixteenBytes ==
    /\ TagVerified => Len(dec.mid.authTag) = TagLength
    /\ (dec.called /\ dec.mid.reached # "none" /\ Len(dec.mid.secret) < TagLength)
          => ~dec.out.ok /\ ~TagVerified

---------------------------------------------------------------------------
(* Properties of the Convex tables *)

\* A mutation ran in this step.
MutationRan == mut'.seq = mut.seq + 1

\* No table holds two documents with the same key.
OneRowPerKey ==
    \A t \in TableNames : \A i, j \in 1..Len(db[t]) :
        i # j => db[t][i][KeyField(t)] # db[t][j][KeyField(t)]

\* The documents of a table stay, each in its place, with the identifier and
\* the createdAt they were inserted with.
RowsKeepCreation ==
    \A t \in TableNames :
        /\ Len(db'[t]) >= Len(db[t])
        /\ \A i \in 1..Len(db[t]) :
              /\ db'[t][i]._id = db[t][i]._id
              /\ db'[t][i].createdAt = db[t][i].createdAt
              /\ db'[t][i][KeyField(t)] = db[t][i][KeyField(t)]

\* syncFromRain patched the document that has the key of its arguments when
\* there was one, and inserted one document when there was none; either way
\* the document now holds the arguments.
SyncedInPlace ==
    LET t == mut'.table
        key == mut'.args[KeyField(t)]
        had == First(db[t], KeyField(t), key)
        has == First(db'[t], KeyField(t), key)
    IN  /\ has # 0
        /\ \A f \in DOMAIN mut'.args : db'[t][has][f] = mut'.args[f]
        /\ had # 0 => has = had /\ Len(db'[t]) = Len(db[t])
        /\ had = 0 => has = Len(db[t]) + 1 /\ Len(db'[t]) = Len(db[t]) + 1
        /\ \A u \in TableNames \ {t} : db'[u] = db[u]

\* C27: syncFromRain is an upsert keyed by the Rain identifier: no table ever
\* holds two documents for one identifier, a sync of an identifier that has a
\* document updates it instead of inserting, and no step changes the
\* createdAt of a document.
C27_SyncIsUpsert ==
    /\ []OneRowPerKey
    /\ [][RowsKeepCreation]_vars
    /\ [][(MutationRan /\ mut'.fn = "syncFromRain") => SyncedInPlace]_vars

\* card-1 was synced three times, last as locked: the table holds one document
\* for it, created at the first sync and updated at the third.
C27_Witness ==
    /\ mut.seq = 3 /\ mut.fn = "syncFromRain" /\ mut.table = "cards"
    /\ Len(db.cards) = 1
    /\ db.cards[1].rainCardId = "card-1" /\ db.cards[1].status = "locked"
    /\ db.cards[1].createdAt = DateNow(0)
    /\ db.cards[1].updatedAt = DateNow(2)
    /\ db.cards[1].updatedAt > db.cards[1].createdAt

\* The fields a card mutation names.
NamedFields(fn) ==
    IF fn = "updateStatus" THEN {"status"} ELSE {"limitAmount", "limitFrequency"}

\* C28: updateStatus and updateLimit on a rainCardId without a document throw
\* 'Card not found' and leave the table as it was; on a card that has one they
\* set the fields they name to their arguments, set updatedAt, and leave every
\* other field, every other document and every other table as it was.
C28_CardUpdateTouchesNamedFields ==
    [][(MutationRan /\ mut'.fn \in {"updateStatus", "updateLimit"}) =>
        LET card == First(db.cards, "rainCardId", mut'.args.rainCardId) IN
        /\ card = 0 => mut'.error = "Card not found" /\ db' = db
        /\ card # 0 =>
              /\ mut'.error = "none"
              /\ \A t \in TableNames \ {"cards"} : db'[t] = db[t]
              /\ Len(db'.cards) = Len(db.cards)
              /\ \A i \in 1..Len(db.cards) : i # card => db'.cards[i] = db.cards[i]
              /\ DOMAIN db'.cards[card] = DOMAIN db.cards[card]
              /\ \A f \in NamedFields(mut'.fn) : db'.cards[card][f] = mut'.args[f]
              /\ \A f \in DOMAIN db.cards[card] \ (NamedFields(mut'.fn) \cup {"updatedAt"}) :
                    db'.cards[card][f] = db.cards[card][f]]_vars

\* Both cards were synced as active; updateStatus then locked card-2, a
\* millisecond later: only its status and updatedAt differ from card-1's.
C28_Witness ==
    /\ mut.seq = 3 /\ mut.fn = "updateStatus" /\ mut.error = "none"
    /\ mut.args.rainCardId = "card-2"
    /\ Len(db.cards) = 2
    /\ db.cards[1].status = "active" /\ db.cards[2].status = "locked"
    /\ db.cards[2].limitAmount = 100
    /\ db.cards[2].lastSyncedAt = DateNow(1)
    /\ db.cards[2].updatedAt = DateNow(2)
    /\ db.cards[2].updatedAt > db.cards[2].lastSyncedAt

---------------------------------------------------------------------------
(* Properties of the MCP tools *)

UpdateTools == {"update_card_status", "update_card_limit"}

\* Call t of an update tool has answered, and no other call concerns its card.
AnsweredAlone(t) ==
    /\ tool[t].pc = "done" /\ tool[t].name \in UpdateTools
    /\ \A u \in ToolCalls \ {t} :
          \/ tool[u].pc = "idle"
          \/ tool[u].name \notin UpdateTools
          \/ tool[u].args.cardId # tool[t].args.cardId

\* The field of a card that a tool updates, as the remote service holds it and
\* as a document of the table holds it.
UpdatedInRain(name, card) ==
    IF name = "update_card_status" THEN <<card.status>>
    ELSE <<card.limit.amount, card.limit.frequency>>

UpdatedInConvex(name, doc) ==
    IF name = "update_card_status" THEN <<doc.status>>
    ELSE <<doc.limitAmount, doc.limitFrequency>>

\* C29: the update tools keep the remote service and the table in step: when a
\* call answers with an error, the status or limit of its card is what it was
\* before the call, at the remote service and in the table; when it answers
\* with success, the document of the card holds the status or limit that the
\* remote service returned.
C29_UpdatesKeepBothInStep ==
    \A t \in ToolCalls : AnsweredAlone(t) =>
        LET name == tool[t].name
            c == tool[t].args.cardId
            docs == SelectSeq(db.cards, LAMBDA d : d.rainCardId = c)
        IN  /\ ~tool[t].result.ok =>
                  /\ UpdatedInRain(name, rain.cards[c])
                        = UpdatedInRain(name, tool[t].before.rain)
                  /\ docs = tool[t].before.convex
            /\ tool[t].result.ok =>
                  /\ Len(docs) = 1
                  /\ UpdatedInConvex(name, docs[1]) = UpdatedInRain(name, tool[t].fetched)
                  /\ UpdatedInRain(name, rain.cards[c]) = UpdatedInRain(name, tool[t].fetched)

\* The available credit of an answer of the remote service: its spendingPower
\* when it has one, else its availableCredit when it has one, else its credit
\* limit less the pending and the posted charges it has.
CreditToReport(b) ==
    IF "spendingPower" \in DOMAIN b THEN b.spendingPower
    ELSE IF "availableCredit" \in DOMAIN b THEN b.availableCredit
    ELSE b.creditLimit
            - (IF "pendingCharges" \in DOMAIN b THEN b.pendingCharges ELSE 0)
            - (IF "postedCharges" \in DOMAIN b THEN b.postedCharges ELSE 0)

\* C30: get_user_balance answers with the balance it fetched from the remote
\* service whenever the fetch succeeded, whether or not the write to the table
\* succeeded, with the available credit taken from spendingPower, else from
\* availableCredit, else computed from the credit limit and the charges; it
\* answers with an error only when the fetch failed.
C30_BalanceIsTheFetchedOne ==
    \A t \in ToolCalls :
        (tool[t].pc = "done" /\ tool[t].name = "get_user_balance") =>
            /\ tool[t].fetched = <<>> => ~tool[t].result.ok /\ ~tool[t].synced
            /\ tool[t].fetched # <<>> =>
                  /\ tool[t].fetched \in BalanceAnswers
                  /\ tool[t].result.ok
                  /\ tool[t].result.creditLimit = tool[t].fetched.creditLimit
                  /\ tool[t].result.availableCredit = CreditToReport(tool[t].fetched)

\* A first call stored the balance; the charges then changed at the remote
\* service, and for the second call the write to the table failed: its answer
\* is the new balance, computed from the charges, not the stored one.
C30_Witness ==
    /\ tool["t1"].pc = "done" /\ tool["t1"].name = "get_user_balance" /\ tool["t1"].synced
    /\ tool["t2"].pc = "done" /\ tool["t2"].name = "get_user_balance" /\ ~tool["t2"].synced
    /\ tool["t2"].fetched = [creditLimit |-> 1000, pendingCharges |-> 100,
                             postedCharges |-> 200, balanceDue |-> 50]
    /\ tool["t2"].result.ok /\ tool["t2"].result.availableCredit = 700
    /\ Len(db.userBalances) = 1 /\ db.userBalances[1].availableCredit = 0

=============================================================================
